---- MODULE Spec2Model ----
(***************************************************************************)
(* Streaming transcription core of the RKNN SenseVoice live transcriber:   *)
(* TimelineMerger, LanguageLockManager, the three-stage PipelineStage      *)
(* pipeline of PipelineOrchestrator and the sequential                     *)
(* AudioProcessingPipeline.                                                *)
(*                                                                         *)
(* Times are counted in ticks of a coarse word-timing grid; confidences    *)
(* and confidence shares are counted in tenths (4 = 0.4).                  *)
(***************************************************************************)
EXTENDS Integers, Sequences, FiniteSets, TLC

\* ---------------------------------------------------------------------
\* Bounds of the model
\* ---------------------------------------------------------------------
MaxFrames == 5          \* local word times of a window lie in 0..MaxFrames
MaxWordsPerChunk == 2   \* words in one decoded window
MaxMerges == 2          \* merge_chunk calls in one behaviour
MaxChunkGap == 2        \* largest step of the chunk counter between merges
MaxRecords == 6         \* record_detection calls in one behaviour
MaxTime == 3            \* clock readings of time.time()
MaxChunks == 4          \* chunks submitted to the parallel pipeline
MaxWindows == 4         \* windows handled by the sequential pipeline
MaxItems == 3           \* items put into the input queue of a stage
MaxEnvelopes == 4       \* envelopes handed to AsyncEmitter.emit
MaxDecodes == 2         \* decode_output calls on windows with a text
MaxTextWords == 3       \* words in the text of a window
MaxHashes == 5          \* distinct audio fingerprints
MaxDedupDecodes == 7    \* decode_output calls on fingerprinted windows
MaxVadCalls == 2        \* is_speech_segment calls in one behaviour
MaxCtcFrames == 3       \* frames of the output tensor of a window
MaxSamples == 12        \* samples the device delivers in one behaviour
MaxRingDecodes == 7     \* decode_output calls on windows of fresh audio
MaxStartCalls == 3      \* PipelineOrchestrator.start calls in one behaviour
MaxPostCalls == 2       \* items the Postprocessing worker handles

\* ---------------------------------------------------------------------
\* Program constants
\* ---------------------------------------------------------------------
chunk_duration_ms == 2             \* PostprocessingStage.chunk_duration_ms
preprocess_queue_size == 3
inference_queue_size == 2
postprocess_queue_size == 2
emit_queue_size == 2               \* pipeline_emit_queue_size
timeline_overlap_confidence == 6   \* 0.6
timeline_min_word_confidence == 4  \* 0.4
language_lock_min_samples == 3
language_lock_confidence == 6      \* 0.6
chunk_hashes_maxlen == 2           \* deque(maxlen=...) of _chunk_hashes
hash_map_limit == 4                \* _hash_to_text is pruned above this size
hash_map_keep == 3                 \* entries of _hash_to_text a pruning keeps
last_texts_maxlen == 6
blank_gate == 97                   \* 0.97
min_chars == 3
overlap_word_count == 2
overlap_similarity == 70           \* 0.7
stitch_confidence_threshold == 6   \* 0.6, _confidence_threshold
similarity_threshold == 85         \* 0.85
duplicate_cooldown_s == 2
enable_confidence_stitching == TRUE
blank_id == 0
frame_duration_ms == 1             \* one tick a frame
rms_margin == 4                    \* 0.004
device_rate == 2                   \* samples a tick
chunk_duration == 2
overlap_duration == 1
vad_energy_threshold == 10         \* 0.01
vad_zcr_min == 2                   \* 0.02
vad_zcr_max == 35                  \* 0.35
vad_entropy_max == 85              \* 0.85
filter_bgm == TRUE
filter_events == {}

None == "None"

VARIABLES
    \* TimelineMerger
    overlap_confidence_threshold, min_word_confidence,
    enable_confidence_replacement,
    global_timeline, last_emit_time_ms,
    new_words, replaced_count, skipped_count,  \* result of the last merge_chunk
    replaced_words,      \* history: words written by a replacement in that call
    merge_offset,        \* chunk counter of the last merge_chunk call
    merge_calls,
    \* LanguageLockManager
    enabled, initial_language, warmup_duration, min_samples,
    confidence_threshold,
    current_language, locked, warmup_start, detections,
    now,                 \* time.time()
    recorded,            \* history: names the caller of RecordDetection passed
    \* PipelineOrchestrator and its stages
    preprocess_queue, inference_queue, postprocess_queue,
    stage_pc, stage_item,
    next_chunk,          \* chunk counter of the caller of submit_audio_chunk
    handled,             \* history: chunk counters handled by Postprocessing
    merged_at,           \* history: chunk counters handed to merge_chunk
    is_running,          \* PipelineOrchestrator.is_running
    stats,               \* stats of each stage: processed, skipped, errors
    submit_returned,     \* <<r>>: the last submit_audio_chunk call returned r
    dropped_at,          \* history: items lost at each full queue
    raised,              \* history: items whose processing raised, per stage
    start_order,         \* history: the workers start() started, in order
    noise_floor_updates, \* history: update_adaptive_noise_floor calls
    vad_rejected,        \* history: chunks is_speech_segment found no speech in
    \* AudioProcessingPipeline
    chunk_counter,
    legacy_merged,       \* history: chunk counters handed to merge_chunk
    legacy_windows,
    \* A PipelineStage with its queues, and the caller of its stop()
    input_queue, output_queue,
    stage_is_running,    \* PipelineStage.is_running
    stage_stats,         \* PipelineStage.stats
    worker_thread,       \* position of _worker_loop
    worker_item,         \* the item, then the result, the worker holds
    stage_stop,          \* position of the caller of stop()
    stage_fed,           \* items the producer has put or lost so far
    stage_log,           \* history: the items process() was called on
    \* AsyncEmitter, and the caller of its stop()
    emit_queue,
    emitter_is_running,  \* AsyncEmitter.is_running
    emitter_stats,       \* AsyncEmitter.stats
    emit_thread,         \* position of _emit_worker
    emit_item,           \* the envelope the worker holds
    emitter_stop,        \* position of the caller of stop()
    next_envelope,       \* envelopes handed to emit() so far
    emit_returned,       \* <<r>>: the last emit() call returned r
    emit_log,            \* history: the envelopes _do_emit was called on
    \* TranscriptionDecoder
    chunk_hashes,        \* _chunk_hashes
    hash_to_text,        \* the keys of _hash_to_text, in insertion order
    last_texts,
    last_emit_ts,        \* _last_emit_ts
    prev_chunk_tail,     \* <<>> is None, <<tail>> a stored tail
    decode_calls,
    decode_input,        \* history: <<w>>, the window of the last call
    decode_text,         \* history: <<text_clean>> the last call stored
    decode_returned,     \* <<>> is None, <<result>> a result
    \* AudioProcessor, voice activity detection
    vad_mode,
    vad_calls,
    vad_input,           \* history: <<x>>, the arguments of the last call
    vad_returned,        \* <<r>>: the last is_speech_segment call returned r
    \* TranscriptionDecoder, the words of the last window
    ctc_frames,          \* history: T, the frames of the tensor
    ctc_tokens,          \* history: the collapsed tokens
    ctc_words,           \* words_with_timing
    \* AudioProcessingPipeline, the loop of _process_audio_worker
    chunk_size,          \* samples in a chunk of the device
    audio_buffer,
    next_sample,         \* samples the device has delivered so far
    calibrated,          \* noise_calibrator.is_calibrated()
    ingress_log,         \* history: the windows handed to resampling
    \* PipelineOrchestrator.start and stop, and the threads of its components
    thread_running,      \* is_running of the emitter and of each stage
    start_calls,
    start_returned,      \* <<r>>: the last start() call returned r
    started_in_call,     \* history: the components that call started
    \* PostprocessingStage.process inside _worker_loop
    post_calls,          \* items the worker has handed to process()
    post_chunk,          \* chunk_counter of the last item
    post_window,         \* history: what process() did with the last item
    emit_windows,        \* history: items for which emit was called
    rejected_windows     \* history: items the decoder or the filter rejected

mergerCfg == <<overlap_confidence_threshold, min_word_confidence,
               enable_confidence_replacement>>
mergerVars == <<global_timeline, last_emit_time_ms, new_words, replaced_count,
                skipped_count, replaced_words, merge_offset, merge_calls>>
langCfg == <<enabled, initial_language, warmup_duration, min_samples,
             confidence_threshold>>
langVars == <<current_language, locked, warmup_start, detections>>
langAux == <<now, recorded>>
pipeVars == <<preprocess_queue, inference_queue, postprocess_queue,
              stage_pc, stage_item, next_chunk, handled, merged_at,
              is_running, stats, submit_returned, dropped_at, raised>>
pipeAux == <<start_order, noise_floor_updates, vad_rejected>>
legacyVars == <<chunk_counter, legacy_merged, legacy_windows>>
decoderVars == <<chunk_hashes, hash_to_text, last_texts, last_emit_ts,
                 prev_chunk_tail, decode_calls, decode_input, decode_text,
                 decode_returned>>
vadVars == <<vad_mode, vad_calls, vad_input, vad_returned>>
ctcVars == <<ctc_frames, ctc_tokens, ctc_words>>
ingressVars == <<chunk_size, audio_buffer, next_sample, calibrated, ingress_log>>
orchVars == <<thread_running, start_calls, start_returned, started_in_call>>
postVars == <<post_calls, post_chunk, post_window, emit_windows,
              rejected_windows>>
backVars == <<orchVars, postVars>>
frontVars == <<decoderVars, vadVars, ctcVars, ingressVars, backVars>>
stageVars == <<input_queue, output_queue, stage_is_running, stage_stats,
               worker_thread, worker_item, stage_stop, stage_fed, stage_log>>
emitVars == <<emit_queue, emitter_is_running, emitter_stats, emit_thread,
              emit_item, emitter_stop, next_envelope, emit_returned, emit_log>>
workerVars == <<stageVars, emitVars>>
vars == <<mergerCfg, mergerVars, langCfg, langVars, langAux, pipeVars,
          pipeAux, legacyVars, workerVars, frontVars>>

Range(s) == {s[i] : i \in 1..Len(s)}

Max(a, b) == IF a >= b THEN a ELSE b

\* =====================================================================
\* TimelineMerger
\* =====================================================================

\* Confidence levels of decoded words, in tenths
Confidences == {3, 5, 9}

\* A decoded word covers a non-empty run of frames of its window
LocalWords == {[start_ms |-> s, end_ms |-> e, confidence |-> c] :
                 s \in 0..MaxFrames, e \in 1..MaxFrames, c \in Confidences}

Sequential(ws) == \A i \in 1..(Len(ws) - 1) : ws[i].end_ms <= ws[i + 1].start_ms

\* The word lists the decoder builds: the words follow each other in time
RECURSIVE WordListsOfLen(_)
WordListsOfLen(n) ==
    IF n = 0 THEN {<<>>}
    ELSE {ws \in {Append(p, w) : p \in WordListsOfLen(n - 1),
                                 w \in {x \in LocalWords : x.start_ms < x.end_ms}} :
            Sequential(ws)}

WordLists == UNION {WordListsOfLen(n) : n \in 0..MaxWordsPerChunk}

\* TimelineMerger.__init__
MergerInit(thr, minc, repl) ==
    /\ overlap_confidence_threshold = thr
    /\ min_word_confidence = minc
    /\ enable_confidence_replacement = repl
    /\ global_timeline = <<>>
    /\ last_emit_time_ms = 0
    /\ new_words = <<>>
    /\ replaced_count = 0
    /\ skipped_count = 0
    /\ replaced_words = <<>>
    /\ merge_offset = 0
    /\ merge_calls = 0

\* The index _try_replace_overlapping_word rewrites, scanning from i down
\* to 1; 0 when no overlapping entry is less confident by the threshold.
RECURSIVE ReplaceIndexAnyOverlap(_, _, _, _, _)
ReplaceIndexAnyOverlap(tl, i, start_ms, end_ms, new_confidence) ==
    IF i = 0 THEN 0
    ELSE IF /\ tl[i].start_ms < end_ms
            /\ tl[i].end_ms > start_ms
         THEN i
         ELSE ReplaceIndexAnyOverlap(tl, i - 1, start_ms, end_ms, new_confidence)

RECURSIVE ReplaceIndex(_, _, _, _, _)
ReplaceIndex(tl, i, start_ms, end_ms, new_confidence) ==
    IF i = 0 THEN 0
    ELSE IF /\ tl[i].start_ms < end_ms
            /\ tl[i].end_ms > start_ms
            /\ new_confidence > tl[i].confidence + overlap_confidence_threshold
         THEN i
         ELSE ReplaceIndex(tl, i - 1, start_ms, end_ms, new_confidence)

\* One iteration of the loop of merge_chunk over st = the merger's fields
\* and the locals of the call.
MergeWordKeepsLowConfidence(st, w, text, offset) ==
    LET gs == offset + w.start_ms
        ge == offset + w.end_ms
        nw == [word |-> text, start_ms |-> gs, end_ms |-> ge,
               confidence |-> w.confidence]
        i == ReplaceIndex(st.tl, Len(st.tl), gs, ge, w.confidence)
    IN  IF ge <= st.last
        THEN [st EXCEPT !.sc = @ + 1]
        ELSE IF gs < st.last /\ st.last < ge /\ enable_confidence_replacement
                /\ i > 0
        THEN [st EXCEPT !.tl[i] = nw, !.rc = @ + 1, !.rw = Append(@, nw)]
        ELSE IF gs < st.last /\ st.last < ge /\ ~enable_confidence_replacement
        THEN [st EXCEPT !.sc = @ + 1]
        ELSE IF gs >= st.last
        THEN [st EXCEPT !.nw = Append(@, nw), !.tl = Append(@, nw),
                        !.last = Max(@, ge)]
        ELSE st

MergeWordNoSkip(st, w, text, offset) ==
    LET gs == offset + w.start_ms
        ge == offset + w.end_ms
        nw == [word |-> text, start_ms |-> gs, end_ms |-> ge,
               confidence |-> w.confidence]
    IN  IF w.confidence < min_word_confidence
        THEN [st EXCEPT !.sc = @ + 1]
        ELSE [st EXCEPT !.nw = Append(@, nw), !.tl = Append(@, nw),
                        !.last = ge]

MergeWord(st, w, text, offset) ==
    LET gs == offset + w.start_ms
        ge == offset + w.end_ms
        nw == [word |-> text, start_ms |-> gs, end_ms |-> ge,
               confidence |-> w.confidence]
        i == ReplaceIndex(st.tl, Len(st.tl), gs, ge, w.confidence)
    IN  IF w.confidence < min_word_confidence
        THEN [st EXCEPT !.sc = @ + 1]
        ELSE IF ge <= st.last
        THEN [st EXCEPT !.sc = @ + 1]
        ELSE IF gs < st.last /\ st.last < ge /\ enable_confidence_replacement
                /\ i > 0
        THEN [st EXCEPT !.tl[i] = nw, !.rc = @ + 1, !.rw = Append(@, nw)]
        ELSE IF gs < st.last /\ st.last < ge /\ ~enable_confidence_replacement
        THEN [st EXCEPT !.sc = @ + 1]
        ELSE IF gs >= st.last
        THEN [st EXCEPT !.nw = Append(@, nw), !.tl = Append(@, nw),
                        !.last = Max(@, ge)]
        ELSE st

RECURSIVE MergeLoop(_, _, _, _, _)
MergeLoop(st, ws, k, chunk, offset) ==
    IF k > Len(ws) THEN st
    ELSE MergeLoop(MergeWord(st, ws[k], <<chunk, k>>, offset), ws, k + 1,
                   chunk, offset)

\* merge_chunk(words_with_timing, chunk_offset_ms), called for the window
\* with chunk counter `chunk`
merge_chunk(ws, chunk) ==
    LET st0 == [tl |-> global_timeline, last |-> last_emit_time_ms,
                nw |-> <<>>, rc |-> 0, sc |-> 0, rw |-> <<>>]
        st == IF ws = <<>> THEN st0
              ELSE MergeLoop(st0, ws, 1, chunk, chunk * chunk_duration_ms)
    IN  /\ global_timeline' = st.tl
        /\ last_emit_time_ms' = st.last
        /\ new_words' = st.nw
        /\ replaced_count' = st.rc
        /\ skipped_count' = st.sc
        /\ replaced_words' = st.rw

\* A caller hands the next decoded window to the merger; chunk counters
\* grow from call to call and may leave gaps.
MergeChunk ==
    /\ merge_calls < MaxMerges
    /\ \E ws \in WordLists, gap \in 1..MaxChunkGap :
         /\ LET chunk == IF merge_calls = 0 THEN 0 ELSE merge_offset + gap
            IN  /\ merge_chunk(ws, chunk)
                /\ merge_offset' = chunk
    /\ merge_calls' = merge_calls + 1
    /\ UNCHANGED <<mergerCfg, langCfg, workerVars, langVars, langAux, pipeVars,
                   legacyVars, pipeAux, frontVars>>

\* TimelineMerger.reset
MergerReset ==
    /\ global_timeline # <<>>
    /\ global_timeline' = <<>>
    /\ last_emit_time_ms' = 0
    /\ UNCHANGED <<new_words, replaced_count, skipped_count, replaced_words,
                   merge_offset, merge_calls>>
    /\ UNCHANGED <<mergerCfg, langCfg, workerVars, langVars, langAux, pipeVars,
                   legacyVars, pipeAux, frontVars>>

\* =====================================================================
\* LanguageLockManager
\* =====================================================================

\* Language names the decoder reports; "Auto" has no entry in the code map
LanguageNames == {"English", "Chinese", "Auto"}

LANGUAGE_CODE_MAP(name) ==
    CASE name = "English" -> "en"
      [] name = "Chinese" -> "zh"
      [] OTHER -> None

\* LanguageLockManager.__init__
LangInit(en, lang, warmup, minsamples, conf) ==
    /\ enabled = en
    /\ initial_language = lang
    /\ warmup_duration = warmup
    /\ min_samples = minsamples
    /\ confidence_threshold = conf
    /\ current_language = lang
    /\ locked = (lang # "auto")
    /\ warmup_start = <<>>
    /\ detections = <<>>
    /\ now = 1
    /\ recorded = <<>>

Count(det, c) == Cardinality({i \in 1..Len(det) : det[i] = c})

FirstIndex(det, c) ==
    CHOOSE i \in 1..Len(det) : det[i] = c /\ \A j \in 1..(i - 1) : det[j] # c

\* Counter(detections).most_common(1)[0][0]: the highest count, the code
\* seen first among equal counts
MostCommonLast(det) == det[Len(det)]

MostCommon(det) ==
    CHOOSE c \in Range(det) :
        \A d \in Range(det) :
            \/ Count(det, c) > Count(det, d)
            \/ Count(det, c) = Count(det, d)
               /\ FirstIndex(det, c) <= FirstIndex(det, d)

\* warmup_start after start_warmup(); <<>> stands for None, <<t>> for the
\* clock reading t
WarmupStarted ==
    IF enabled /\ ~locked /\ warmup_start = <<>> THEN <<now>> ELSE warmup_start

\* start_warmup()
start_warmup ==
    /\ warmup_start' = WarmupStarted
    /\ UNCHANGED <<current_language, locked, detections>>

check_lock_conditions_retry(det, ws) ==
    IF locked \/ ws = <<>> \/ now - ws[1] < warmup_duration
       \/ Len(det) < min_samples
    THEN UNCHANGED <<locked, current_language>>
    ELSE IF Count(det, MostCommon(det)) * 10 >= confidence_threshold * Len(det)
    THEN /\ current_language' = MostCommon(det)
         /\ locked' = TRUE
    ELSE /\ locked' = TRUE
         /\ UNCHANGED current_language

\* _check_lock_conditions(), run on the detections det and warm-up start ws
\* that record_detection has just written
check_lock_conditions(det, ws) ==
    IF locked \/ ws = <<>> \/ now - ws[1] < warmup_duration
    THEN UNCHANGED <<locked, current_language>>
    ELSE IF Len(det) < min_samples
    THEN /\ locked' = TRUE
         /\ UNCHANGED current_language
    ELSE IF Count(det, MostCommon(det)) * 10 >= confidence_threshold * Len(det)
    THEN /\ current_language' = MostCommon(det)
         /\ locked' = TRUE
    ELSE /\ locked' = TRUE
         /\ UNCHANGED current_language

record_detection_unguarded(language_name) ==
    IF ~enabled
    THEN UNCHANGED langVars
    ELSE IF LANGUAGE_CODE_MAP(language_name) = None
    THEN /\ warmup_start' = WarmupStarted
         /\ UNCHANGED <<current_language, locked, detections>>
    ELSE /\ warmup_start' = WarmupStarted
         /\ detections' = Append(detections, LANGUAGE_CODE_MAP(language_name))
         /\ UNCHANGED <<current_language, locked>>

\* record_detection(language_name)
record_detection(language_name) ==
    IF ~enabled \/ locked
    THEN UNCHANGED langVars
    ELSE IF LANGUAGE_CODE_MAP(language_name) = None
    THEN /\ warmup_start' = WarmupStarted
         /\ UNCHANGED <<current_language, locked, detections>>
    ELSE /\ warmup_start' = WarmupStarted
         /\ detections' = Append(detections, LANGUAGE_CODE_MAP(language_name))
         /\ check_lock_conditions(
                Append(detections, LANGUAGE_CODE_MAP(language_name)),
                WarmupStarted)

\* get_current_language()
get_current_language == current_language

RecordDetection ==
    /\ Len(recorded) < MaxRecords
    /\ \E name \in LanguageNames :
         /\ record_detection(name)
         /\ recorded' = Append(recorded, name)
    /\ UNCHANGED <<now, langCfg, workerVars, mergerCfg, mergerVars, pipeVars,
                   legacyVars, pipeAux, frontVars>>

StartWarmup ==
    /\ start_warmup
    /\ UNCHANGED <<langAux, langCfg, workerVars, mergerCfg, mergerVars,
                   pipeVars, legacyVars, pipeAux, frontVars>>

\* time.time() advances
Tick ==
    /\ now < MaxTime
    /\ now' = now + 1
    /\ UNCHANGED <<recorded, langVars, langCfg, workerVars, mergerCfg,
                   mergerVars, pipeVars, legacyVars, pipeAux, frontVars>>

\* LanguageLockManager.reset()
LangReset ==
    /\ current_language' = initial_language
    /\ locked' = (initial_language # "auto")
    /\ warmup_start' = <<>>
    /\ detections' = <<>>
    /\ recorded' = <<>>
    /\ UNCHANGED <<now, langCfg, workerVars, mergerCfg, mergerVars, pipeVars,
                   legacyVars, pipeAux, frontVars>>

\* =====================================================================
\* PipelineStage workers and PipelineOrchestrator
\* =====================================================================

Stages == {"Preprocessing", "Inference", "Postprocessing"}

\* queue.Queue.put / put_nowait on a queue with room: the item joins the tail
QueuePutFront(q, item) == <<item>> \o q

QueuePut(q, item) == Append(q, item)

QueueFull(q, maxsize) == Len(q) >= maxsize

\* put_nowait, and put at its timeout: a full queue stays as it is and the
\* caller sees queue.Full
put_nowait_drop_oldest(q, item, maxsize) ==
    IF QueueFull(q, maxsize) THEN QueuePut(Tail(q), item) ELSE QueuePut(q, item)

put_nowait(q, item, maxsize) ==
    IF QueueFull(q, maxsize) THEN q ELSE QueuePut(q, item)

\* output_queue.put(result, timeout=1.0) comes back, with the item queued or
\* with queue.Full at the timeout
PutWaitsForRoom(q, maxsize) == ~QueueFull(q, maxsize)

PutReturns(q, maxsize) == TRUE

Queues == {"preprocess", "inference", "postprocess"}

\* PipelineOrchestrator.__init__ and PipelineStage.__init__
PipeInit ==
    /\ preprocess_queue = <<>>
    /\ inference_queue = <<>>
    /\ postprocess_queue = <<>>
    /\ stage_pc = [s \in Stages |-> "get"]
    /\ stage_item = [s \in Stages |-> None]
    /\ next_chunk = 0
    /\ handled = <<>>
    /\ merged_at = <<>>
    /\ is_running = FALSE
    /\ stats = [s \in Stages |-> [processed |-> 0, skipped |-> 0, errors |-> 0]]
    /\ submit_returned = <<>>
    /\ dropped_at = [q \in Queues |-> 0]
    /\ raised = [s \in Stages |-> 0]
    /\ start_order = <<>>
    /\ noise_floor_updates = 0
    /\ vad_rejected = {}

\* PipelineOrchestrator.stages, the list start() walks
stages == <<"Preprocessing", "Inference", "Postprocessing">>

\* PipelineOrchestrator.start(): the emitter starts, then the workers of
\* self.stages in list order, then is_running is set
start ==
    /\ ~is_running
    /\ start_order' = start_order \o <<"AsyncEmitter">> \o stages
    /\ is_running' = TRUE
    /\ UNCHANGED <<preprocess_queue, inference_queue, postprocess_queue,
                   stage_pc, stage_item, next_chunk, handled, merged_at, stats,
                   submit_returned, dropped_at, raised, noise_floor_updates,
                   vad_rejected>>
    /\ UNCHANGED <<mergerCfg, mergerVars, langCfg, workerVars, langVars,
                   langAux, legacyVars, frontVars>>

\* A caller hands over the next chunk: submit_audio_chunk(audio_buffer,
\* chunk_counter) with put_nowait; a chunk that finds the queue full is lost.
submit_audio_chunk ==
    /\ next_chunk < MaxChunks
    /\ next_chunk' = next_chunk + 1
    /\ IF ~is_running
       THEN /\ submit_returned' = <<FALSE>>
            /\ UNCHANGED <<preprocess_queue, dropped_at>>
       ELSE /\ preprocess_queue' =
                  put_nowait(preprocess_queue, next_chunk, preprocess_queue_size)
            /\ submit_returned' =
                  <<~QueueFull(preprocess_queue, preprocess_queue_size)>>
            /\ dropped_at' =
                  IF QueueFull(preprocess_queue, preprocess_queue_size)
                  THEN [dropped_at EXCEPT !["preprocess"] = @ + 1]
                  ELSE dropped_at
    /\ UNCHANGED <<inference_queue, postprocess_queue, stage_pc, stage_item,
                   handled, merged_at, is_running, stats, raised>>
    /\ UNCHANGED <<mergerCfg, mergerVars, langCfg, workerVars, langVars,
                   langAux, legacyVars, pipeAux, frontVars>>

\* _worker_loop after process(item) returned result: stats of stage s
StatsAfter(s, result_is_none) ==
    IF result_is_none
    THEN [stats EXCEPT ![s].skipped = @ + 1]
    ELSE [stats EXCEPT ![s].processed = @ + 1]

\* What PreprocessingStage.process does with an item:
\*   resample_raise  resampling or the VAD raised; caught, None returned
\*   no_speech       the VAD found no speech; update_adaptive_noise_floor
\*                   is called and None returned
\*   features_raise  start_warmup ran, then audio_to_features raised; caught
\*   no_features     start_warmup ran, audio_to_features gave None
\*   features        start_warmup ran, the features are returned
PreOutcomes == {"resample_raise", "no_speech", "features_raise", "no_features",
                "features"}

\* The outcomes in which process reaches start_warmup: those behind the
\* return of the VAD branch
WarmupOutcomesBeforeVad == PreOutcomes \ {"resample_raise"}

WarmupOutcomes == {"features_raise", "no_features", "features"}

\* _worker_loop of the Preprocessing stage: get an item and process it
PreprocessingGet ==
    /\ stage_pc["Preprocessing"] = "get"
    /\ preprocess_queue # <<>>
    /\ preprocess_queue' = Tail(preprocess_queue)
    /\ \E outcome \in PreOutcomes :
         /\ IF outcome \in WarmupOutcomes
            THEN start_warmup
            ELSE UNCHANGED langVars
         /\ stats' = StatsAfter("Preprocessing", outcome # "features")
         /\ raised' = IF outcome \in {"resample_raise", "features_raise"}
                      THEN [raised EXCEPT !["Preprocessing"] = @ + 1]
                      ELSE raised
         /\ noise_floor_updates' = IF outcome = "no_speech"
                                   THEN noise_floor_updates + 1
                                   ELSE noise_floor_updates
         /\ vad_rejected' = IF outcome = "no_speech"
                            THEN vad_rejected \cup {Head(preprocess_queue)}
                            ELSE vad_rejected
         /\ IF outcome = "features"
            THEN /\ stage_pc' = [stage_pc EXCEPT !["Preprocessing"] = "put"]
                 /\ stage_item' = [stage_item EXCEPT
                                     !["Preprocessing"] = Head(preprocess_queue)]
            ELSE UNCHANGED <<stage_pc, stage_item>>
    /\ UNCHANGED <<inference_queue, postprocess_queue, next_chunk, handled,
                   merged_at, is_running, submit_returned, dropped_at,
                   start_order>>
    /\ UNCHANGED <<mergerCfg, mergerVars, langCfg, workerVars, langAux,
                   legacyVars, frontVars>>

\* _worker_loop: output_queue.put(result, timeout=1.0) of Preprocessing; the
\* result is dropped when the queue is still full at the timeout
PreprocessingPut ==
    /\ stage_pc["Preprocessing"] = "put"
    /\ PutReturns(inference_queue, inference_queue_size)
    /\ inference_queue' =
          put_nowait(inference_queue, stage_item["Preprocessing"],
                     inference_queue_size)
    /\ dropped_at' = IF QueueFull(inference_queue, inference_queue_size)
                     THEN [dropped_at EXCEPT !["inference"] = @ + 1]
                     ELSE dropped_at
    /\ stage_pc' = [stage_pc EXCEPT !["Preprocessing"] = "get"]
    /\ stage_item' = [stage_item EXCEPT !["Preprocessing"] = None]
    /\ UNCHANGED <<preprocess_queue, postprocess_queue, next_chunk, handled,
                   merged_at, is_running, stats, submit_returned, raised>>
    /\ UNCHANGED <<mergerCfg, mergerVars, langCfg, workerVars, langVars,
                   langAux, legacyVars, pipeAux, frontVars>>

\* What InferenceStage.process does with an item: run_inference raised
\* (caught, None returned), gave None, or gave the NPU output, which is
\* returned with the chunk_counter of the item
InferOutcomes == {"inference_raise", "inference_none", "output"}

\* _worker_loop of the Inference stage
InferenceGet ==
    /\ stage_pc["Inference"] = "get"
    /\ inference_queue # <<>>
    /\ inference_queue' = Tail(inference_queue)
    /\ \E outcome \in InferOutcomes :
         /\ stats' = StatsAfter("Inference", outcome # "output")
         /\ raised' = IF outcome = "inference_raise"
                      THEN [raised EXCEPT !["Inference"] = @ + 1]
                      ELSE raised
         /\ IF outcome = "output"
            THEN /\ stage_pc' = [stage_pc EXCEPT !["Inference"] = "put"]
                 /\ stage_item' = [stage_item EXCEPT
                                     !["Inference"] = Head(inference_queue)]
            ELSE UNCHANGED <<stage_pc, stage_item>>
    /\ UNCHANGED <<preprocess_queue, postprocess_queue, next_chunk, handled,
                   merged_at, is_running, submit_returned, dropped_at>>
    /\ UNCHANGED <<mergerCfg, mergerVars, langCfg, workerVars, langVars,
                   langAux, legacyVars, pipeAux, frontVars>>

InferencePut ==
    /\ stage_pc["Inference"] = "put"
    /\ PutReturns(postprocess_queue, postprocess_queue_size)
    /\ postprocess_queue' =
          put_nowait(postprocess_queue, stage_item["Inference"],
                     postprocess_queue_size)
    /\ dropped_at' = IF QueueFull(postprocess_queue, postprocess_queue_size)
                     THEN [dropped_at EXCEPT !["postprocess"] = @ + 1]
                     ELSE dropped_at
    /\ stage_pc' = [stage_pc EXCEPT !["Inference"] = "get"]
    /\ stage_item' = [stage_item EXCEPT !["Inference"] = None]
    /\ UNCHANGED <<preprocess_queue, inference_queue, next_chunk, handled,
                   merged_at, is_running, stats, submit_returned, raised>>
    /\ UNCHANGED <<mergerCfg, mergerVars, langCfg, workerVars, langVars,
                   langAux, legacyVars, pipeAux, frontVars>>

\* What PostprocessingStage.process does with an item:
\*   decode_raise   decode_output raised; caught, None returned
\*   decode_none    the decoder rejected the output
\*   filtered       the metadata filter dropped the result
\*   timeline       merge_chunk, then the new words are emitted
\*   timeline_raise merge_chunk was called, then text post-processing raised
\*   legacy_output  the text is emitted unmerged
PostOutcomes == {"decode_raise", "decode_none", "filtered", "timeline",
                 "timeline_raise", "legacy_output"}

\* result.get('language') of a decoded result: a language name or nothing
DetectedLanguages == LanguageNames \cup {None}

\* _worker_loop of the Postprocessing stage (no output queue); process()
\* returns None for every item
PostprocessingGet ==
    /\ stage_pc["Postprocessing"] = "get"
    /\ postprocess_queue # <<>>
    /\ postprocess_queue' = Tail(postprocess_queue)
    /\ handled' = Append(handled, Head(postprocess_queue))
    /\ \E outcome \in PostOutcomes, detected_lang \in DetectedLanguages :
         /\ IF outcome \in {"decode_raise", "decode_none"}
               \/ detected_lang = None
            THEN UNCHANGED langVars
            ELSE record_detection(detected_lang)
         /\ merged_at' = IF outcome \in {"timeline", "timeline_raise"}
                         THEN Append(merged_at, Head(postprocess_queue))
                         ELSE merged_at
         /\ raised' = IF outcome \in {"decode_raise", "timeline_raise"}
                      THEN [raised EXCEPT !["Postprocessing"] = @ + 1]
                      ELSE raised
    /\ stats' = StatsAfter("Postprocessing", TRUE)
    /\ UNCHANGED <<preprocess_queue, inference_queue, stage_pc, stage_item,
                   next_chunk, is_running, submit_returned, dropped_at>>
    /\ UNCHANGED <<langAux, mergerCfg, mergerVars, langCfg, workerVars,
                   legacyVars, pipeAux, frontVars>>

\* =====================================================================
\* AudioProcessingPipeline (sequential worker)
\* =====================================================================

LegacyInit ==
    /\ chunk_counter = 0
    /\ legacy_merged = <<>>
    /\ legacy_windows = 0

\* What one turn of _process_audio_worker does with a full window:
\*   no_result      VAD, feature extraction, inference or decoding gave None
\*   filtered       check_metadata_filter dropped the result
\*   timeline       merge_chunk, then format and emit, all returned
\*   timeline_raise merge_chunk was called, then formatting or emitting raised
\*   legacy_output  the text was formatted and emitted unmerged
\*   legacy_raise   formatting or emitting the unmerged text raised
WindowOutcomes == {"no_result", "filtered", "timeline", "timeline_raise",
                   "legacy_output", "legacy_raise"}

\* _process_transcription_result: self.chunk_counter afterwards
CounterAfterResult(outcome) ==
    IF outcome \in {"filtered", "timeline", "legacy_output"}
    THEN chunk_counter + 1
    ELSE chunk_counter

\* One turn of the loop of _process_audio_worker on a full window
process_audio_worker ==
    /\ legacy_windows < MaxWindows
    /\ legacy_windows' = legacy_windows + 1
    /\ \E outcome \in WindowOutcomes :
         /\ legacy_merged' =
               IF outcome \in {"timeline", "timeline_raise"}
               THEN Append(legacy_merged, chunk_counter)
               ELSE legacy_merged
         /\ chunk_counter' = CounterAfterResult(outcome)
    /\ UNCHANGED <<mergerCfg, mergerVars, langCfg, workerVars, langVars,
                   langAux, pipeVars, pipeAux, frontVars>>

\* =====================================================================
\* PipelineStage (abstract base class): one stage, its worker thread, the
\* producer of its input queue, the consumer of its output queue and the
\* caller of stop().  The stage is started once.
\* =====================================================================

\* The None that stop() puts; an item k is <<k>>
Sentinel == <<>>

\* __init__, and start() when started
StageInit(started) ==
    /\ input_queue = <<>>
    /\ output_queue = <<>>
    /\ stage_is_running = started
    /\ stage_stats = [processed |-> 0, skipped |-> 0, errors |-> 0]
    /\ worker_thread = IF started THEN "check" ELSE "none"
    /\ worker_item = Sentinel
    /\ stage_stop = "none"
    /\ stage_fed = 0
    /\ stage_log = <<>>

\* The producer puts the next item; it is lost when the queue is full
StageFeed ==
    /\ worker_thread # "none"
    /\ stage_fed < MaxItems
    /\ stage_fed' = stage_fed + 1
    /\ input_queue' = put_nowait(input_queue, <<stage_fed>>, inference_queue_size)
    /\ UNCHANGED <<output_queue, stage_is_running, stage_stats, worker_thread,
                   worker_item, stage_stop, stage_log>>
    /\ UNCHANGED <<mergerCfg, mergerVars, langCfg, langVars, langAux, pipeVars,
                   legacyVars, pipeAux, frontVars, emitVars>>

\* The consumer of the output queue takes an item
OutputTake ==
    /\ output_queue # <<>>
    /\ output_queue' = Tail(output_queue)
    /\ UNCHANGED <<input_queue, stage_is_running, stage_stats, worker_thread,
                   worker_item, stage_stop, stage_fed, stage_log>>
    /\ UNCHANGED <<mergerCfg, mergerVars, langCfg, langVars, langAux, pipeVars,
                   legacyVars, pipeAux, frontVars, emitVars>>

\* `while self.is_running`
WorkerLoopAlways == TRUE

WorkerLoopCondition == stage_is_running

WorkerCheck ==
    /\ worker_thread = "check"
    /\ worker_thread' = IF WorkerLoopCondition THEN "get" ELSE "stopped"
    /\ UNCHANGED <<input_queue, output_queue, stage_is_running, stage_stats,
                   worker_item, stage_stop, stage_fed, stage_log>>
    /\ UNCHANGED <<mergerCfg, mergerVars, langCfg, langVars, langAux, pipeVars,
                   legacyVars, pipeAux, frontVars, emitVars>>

\* input_queue.get(timeout=0.5): queue.Empty at the timeout (continue), the
\* None of stop() (break), or an item
WorkerGet ==
    /\ worker_thread = "get"
    /\ IF input_queue = <<>>
       THEN /\ worker_thread' = "check"
            /\ UNCHANGED <<input_queue, worker_item>>
       ELSE /\ input_queue' = Tail(input_queue)
            /\ IF Head(input_queue) = Sentinel
               THEN /\ worker_thread' = "stopped"
                    /\ UNCHANGED worker_item
               ELSE /\ worker_thread' = "process"
                    /\ worker_item' = Head(input_queue)
    /\ UNCHANGED <<output_queue, stage_is_running, stage_stats, stage_stop,
                   stage_fed, stage_log>>
    /\ UNCHANGED <<mergerCfg, mergerVars, langCfg, langVars, langAux, pipeVars,
                   legacyVars, pipeAux, frontVars, emitVars>>

\* process(item) returns a result, returns None or raises
ProcessOutcomes == {"result", "none", "raise"}

\* stats after process(item): processed, skipped, or errors in the handler
\* of `except Exception`
StageStatsAfterRaiseUncounted(outcome) ==
    CASE outcome = "result" -> [stage_stats EXCEPT !.processed = @ + 1]
      [] outcome = "none" -> [stage_stats EXCEPT !.skipped = @ + 1]
      [] OTHER -> stage_stats

StageStatsAfterAsSkipped(outcome) ==
    CASE outcome = "result" -> [stage_stats EXCEPT !.processed = @ + 1]
      [] OTHER -> [stage_stats EXCEPT !.skipped = @ + 1]

StageStatsAfter(outcome) ==
    CASE outcome = "result" -> [stage_stats EXCEPT !.processed = @ + 1]
      [] outcome = "none" -> [stage_stats EXCEPT !.skipped = @ + 1]
      [] outcome = "raise" -> [stage_stats EXCEPT !.errors = @ + 1]

\* process(item) and the statistics; a result goes on to the output put
WorkerProcess ==
    /\ worker_thread = "process"
    /\ \E outcome \in ProcessOutcomes :
         /\ stage_stats' = StageStatsAfter(outcome)
         /\ stage_log' = Append(stage_log, <<worker_item[1], outcome>>)
         /\ worker_thread' = IF outcome = "result" THEN "put" ELSE "check"
    /\ UNCHANGED <<input_queue, output_queue, stage_is_running, worker_item,
                   stage_stop, stage_fed>>
    /\ UNCHANGED <<mergerCfg, mergerVars, langCfg, langVars, langAux, pipeVars,
                   legacyVars, pipeAux, frontVars, emitVars>>

\* output_queue.put(result, timeout=1.0); the result is dropped on queue.Full
WorkerPut ==
    /\ worker_thread = "put"
    /\ output_queue' = put_nowait(output_queue, worker_item, postprocess_queue_size)
    /\ worker_thread' = "check"
    /\ UNCHANGED <<input_queue, stage_is_running, stage_stats, worker_item,
                   stage_stop, stage_fed, stage_log>>
    /\ UNCHANGED <<mergerCfg, mergerVars, langCfg, langVars, langAux, pipeVars,
                   legacyVars, pipeAux, frontVars, emitVars>>

\* stop(): is_running = False
StageStop ==
    /\ stage_stop = "none"
    /\ stage_is_running
    /\ stage_is_running' = FALSE
    /\ stage_stop' = "put"
    /\ UNCHANGED <<input_queue, output_queue, stage_stats, worker_thread,
                   worker_item, stage_fed, stage_log>>
    /\ UNCHANGED <<mergerCfg, mergerVars, langCfg, langVars, langAux, pipeVars,
                   legacyVars, pipeAux, frontVars, emitVars>>

\* stop(): input_queue.put(None, timeout=1.0), given up on queue.Full
StageStopPut ==
    /\ stage_stop = "put"
    /\ input_queue' = put_nowait(input_queue, Sentinel, inference_queue_size)
    /\ stage_stop' = IF QueueFull(input_queue, inference_queue_size)
                     THEN "full" ELSE "placed"
    /\ UNCHANGED <<output_queue, stage_is_running, stage_stats, worker_thread,
                   worker_item, stage_fed, stage_log>>
    /\ UNCHANGED <<mergerCfg, mergerVars, langCfg, langVars, langAux, pipeVars,
                   legacyVars, pipeAux, frontVars, emitVars>>

StageWorker == WorkerCheck \/ WorkerGet \/ WorkerProcess \/ WorkerPut

\* start() after stop() has returned and the old worker has ended: is_running
\* is set and a new worker thread begins _worker_loop on the same queues
StageStart ==
    /\ ~stage_is_running
    /\ stage_stop \in {"placed", "full"}
    /\ worker_thread = "stopped"
    /\ stage_is_running' = TRUE
    /\ worker_thread' = "check"
    /\ stage_stop' = "none"
    /\ UNCHANGED <<input_queue, output_queue, stage_stats, worker_item,
                   stage_fed, stage_log>>
    /\ UNCHANGED <<mergerCfg, mergerVars, langCfg, langVars, langAux, pipeVars,
                   legacyVars, pipeAux, frontVars, emitVars>>

\* =====================================================================
\* AsyncEmitter: the emit queue, the worker thread, the caller of emit()
\* and the caller of stop().  The emitter is started once.
\* =====================================================================

\* __init__, and start() when started
EmitterInit(started) ==
    /\ emit_queue = <<>>
    /\ emitter_is_running = started
    /\ emitter_stats = [emitted |-> 0, dropped |-> 0, errors |-> 0]
    /\ emit_thread = IF started THEN "check" ELSE "none"
    /\ emit_item = Sentinel
    /\ emitter_stop = "none"
    /\ next_envelope = 0
    /\ emit_returned = <<>>
    /\ emit_log = <<>>

\* emit(text, result, words) for the envelope <<k>>
emit(k) ==
    /\ emit_queue' = put_nowait(emit_queue, <<k>>, emit_queue_size)
    /\ emit_returned' = <<~QueueFull(emit_queue, emit_queue_size)>>
    /\ emitter_stats' =
          IF QueueFull(emit_queue, emit_queue_size)
          THEN [emitter_stats EXCEPT !.dropped = @ + 1]
          ELSE emitter_stats

\* The Postprocessing stage emits its next result
Emit ==
    /\ emit_thread # "none"
    /\ next_envelope < MaxEnvelopes
    /\ emit(next_envelope)
    /\ next_envelope' = next_envelope + 1
    /\ UNCHANGED <<emitter_is_running, emit_thread, emit_item, emitter_stop,
                   emit_log>>
    /\ UNCHANGED <<mergerCfg, mergerVars, langCfg, langVars, langAux, pipeVars,
                   legacyVars, pipeAux, frontVars, stageVars>>

\* `while self.is_running`
EmitLoopCondition == emitter_is_running

EmitWorkerCheck ==
    /\ emit_thread = "check"
    /\ emit_thread' = IF EmitLoopCondition THEN "get" ELSE "stopped"
    /\ UNCHANGED <<emit_queue, emitter_is_running, emitter_stats, emit_item,
                   emitter_stop, next_envelope, emit_returned, emit_log>>
    /\ UNCHANGED <<mergerCfg, mergerVars, langCfg, langVars, langAux, pipeVars,
                   legacyVars, pipeAux, frontVars, stageVars>>

\* emit_queue.get(timeout=0.5): queue.Empty at the timeout (continue), the
\* None of stop() (break), or an envelope
EmitWorkerGet ==
    /\ emit_thread = "get"
    /\ IF emit_queue = <<>>
       THEN /\ emit_thread' = "check"
            /\ UNCHANGED <<emit_queue, emit_item>>
       ELSE /\ emit_queue' = Tail(emit_queue)
            /\ IF Head(emit_queue) = Sentinel
               THEN /\ emit_thread' = "stopped"
                    /\ UNCHANGED emit_item
               ELSE /\ emit_thread' = "do_emit"
                    /\ emit_item' = Head(emit_queue)
    /\ UNCHANGED <<emitter_is_running, emitter_stats, emitter_stop,
                   next_envelope, emit_returned, emit_log>>
    /\ UNCHANGED <<mergerCfg, mergerVars, langCfg, langVars, langAux, pipeVars,
                   legacyVars, pipeAux, frontVars, stageVars>>

\* What _do_emit does with an envelope:
\*   ok               formatted, printed and broadcast
\*   console_raise    format_display_text or print raised; _do_emit re-raises
\*   broadcast_raise  printed, then the broadcast raised; caught and logged
\*                    at debug level inside _do_emit
EmitOutcomes == {"ok", "console_raise", "broadcast_raise"}

\* Where the worker goes after _do_emit
EmitThreadAfterRaiseStops(outcome) ==
    IF outcome = "ok" THEN "check" ELSE "stopped"

EmitThreadAfter(outcome) == "check"

\* stats after _do_emit: emitted, or errors in the handler of
\* `except Exception`
EmitterStatsAfter(outcome) ==
    IF outcome = "console_raise"
    THEN [emitter_stats EXCEPT !.errors = @ + 1]
    ELSE [emitter_stats EXCEPT !.emitted = @ + 1]

\* _do_emit(item) and the statistics
EmitWorkerDoEmit ==
    /\ emit_thread = "do_emit"
    /\ \E outcome \in EmitOutcomes :
         /\ emitter_stats' = EmitterStatsAfter(outcome)
         /\ emit_log' = Append(emit_log, <<emit_item[1], outcome>>)
         /\ emit_thread' = EmitThreadAfter(outcome)
    /\ UNCHANGED <<emit_queue, emitter_is_running, emit_item, emitter_stop,
                   next_envelope, emit_returned>>
    /\ UNCHANGED <<mergerCfg, mergerVars, langCfg, langVars, langAux, pipeVars,
                   legacyVars, pipeAux, frontVars, stageVars>>

\* stop(): is_running = False
EmitterStop ==
    /\ emitter_stop = "none"
    /\ emitter_is_running
    /\ emitter_is_running' = FALSE
    /\ emitter_stop' = "put"
    /\ UNCHANGED <<emit_queue, emitter_stats, emit_thread, emit_item,
                   next_envelope, emit_returned, emit_log>>
    /\ UNCHANGED <<mergerCfg, mergerVars, langCfg, langVars, langAux, pipeVars,
                   legacyVars, pipeAux, frontVars, stageVars>>

\* stop(): emit_queue.put(None, timeout=1.0), given up on queue.Full
EmitterStopPut ==
    /\ emitter_stop = "put"
    /\ emit_queue' = put_nowait(emit_queue, Sentinel, emit_queue_size)
    /\ emitter_stop' = IF QueueFull(emit_queue, emit_queue_size)
                       THEN "full" ELSE "placed"
    /\ UNCHANGED <<emitter_is_running, emitter_stats, emit_thread, emit_item,
                   next_envelope, emit_returned, emit_log>>
    /\ UNCHANGED <<mergerCfg, mergerVars, langCfg, langVars, langAux, pipeVars,
                   legacyVars, pipeAux, frontVars, stageVars>>

EmitWorker == EmitWorkerCheck \/ EmitWorkerGet \/ EmitWorkerDoEmit

\* start() after stop() has returned and the old worker has ended
EmitterStart ==
    /\ ~emitter_is_running
    /\ emitter_stop \in {"placed", "full"}
    /\ emit_thread = "stopped"
    /\ emitter_is_running' = TRUE
    /\ emit_thread' = "check"
    /\ emitter_stop' = "none"
    /\ UNCHANGED <<emit_queue, emitter_stats, emit_item, next_envelope,
                   emit_returned, emit_log>>
    /\ UNCHANGED <<mergerCfg, mergerVars, langCfg, langVars, langAux, pipeVars,
                   legacyVars, pipeAux, frontVars, stageVars>>

\* =====================================================================
\* TranscriptionDecoder: the gates, the stitching and the duplicate
\* filters of decode_output, and add_audio_hash.  A text is the sequence
\* of its characters; similarities are counted in hundredths.
\* =====================================================================

Space == " "

\* The characters re.findall(r"[A-Za-z0-9]") keeps, of those in use
Alphanumeric == {"a", "b", "A"}

LowerChar(c) == IF c = "A" THEN "a" ELSE c

\* str.lower
lower(s) == [i \in 1..Len(s) |-> LowerChar(s[i])]

\* str.split(): `words` are complete, `word` is being read at position i
RECURSIVE SplitFrom(_, _, _, _)
SplitFrom(s, i, word, words) ==
    LET closed == IF word = <<>> THEN words ELSE Append(words, word)
    IN  IF i > Len(s) THEN closed
        ELSE IF s[i] = Space THEN SplitFrom(s, i + 1, <<>>, closed)
        ELSE SplitFrom(s, i + 1, Append(word, s[i]), words)

split(s) == SplitFrom(s, 1, <<>>, <<>>)

\* ' '.join(words)
RECURSIVE join(_)
join(words) ==
    IF words = <<>> THEN <<>>
    ELSE IF Len(words) = 1 THEN words[1]
    ELSE words[1] \o <<Space>> \o join(Tail(words))

Min(a, b) == IF a <= b THEN a ELSE b

\* levenshtein_similarity, inner loop: the row `curr` of character c of
\* s1, grown over the characters of s2 (each cell is computed before the
\* next one is begun)
RECURSIVE LevenshteinRow(_, _, _, _, _)
LevenshteinRow(prev, c, s2, j, curr) ==
    IF j > Len(s2) THEN curr
    ELSE LET insertions == prev[j + 1] + 1
             deletions == curr[j] + 1
             substitutions == prev[j] + (IF c = s2[j] THEN 0 ELSE 1)
             cell == Min(insertions, Min(deletions, substitutions))
         IN  IF cell >= 0
             THEN LevenshteinRow(prev, c, s2, j + 1, Append(curr, cell))
             ELSE curr

\* levenshtein_similarity, outer loop: the last row
RECURSIVE LevenshteinRows(_, _, _, _)
LevenshteinRows(s1, s2, i, prev) ==
    IF i > Len(s1) THEN prev
    ELSE LET curr == LevenshteinRow(prev, s1[i], s2, 1, <<i>>)
         IN  IF Len(curr) > 0
             THEN LevenshteinRows(s1, s2, i + 1, curr)
             ELSE prev

\* levenshtein_similarity(s1, s2), in hundredths rounded down
levenshtein_similarity(s1, s2) ==
    LET len1 == Len(s1)
        len2 == Len(s2)
        max_len == Max(len1, len2)
        distance == LevenshteinRows(s1, s2, 1,
                                    [k \in 1..(len2 + 1) |-> k - 1])[len2 + 1]
    IN  IF s1 = s2 THEN 100
        ELSE IF s1 = <<>> \/ s2 = <<>> THEN 0
        ELSE IF 2 * (Max(len1, len2) - Min(len1, len2)) > max_len THEN 0
        ELSE (100 * (max_len - distance)) \div max_len

\* len(re.findall(r"[A-Za-z0-9]", text_clean))
AlnumCount(s) == Cardinality({i \in 1..Len(s) : s[i] \in Alphanumeric})

\* deque(maxlen=n).append
DequeAppendUnbounded(q, x, maxlen) == Append(q, x)

DequeAppend(q, x, maxlen) ==
    IF Len(q) >= maxlen THEN Append(Tail(q), x) ELSE Append(q, x)

\* TranscriptionDecoder.__init__
DecoderInit ==
    /\ chunk_hashes = <<>>
    /\ hash_to_text = <<>>
    /\ last_texts = <<>>
    /\ last_emit_ts = 0
    /\ prev_chunk_tail = <<>>
    /\ decode_calls = 0
    /\ decode_input = <<>>
    /\ decode_text = <<>>
    /\ decode_returned = <<>>

\* The fields of the decoder
DecoderState ==
    [chunk_hashes |-> chunk_hashes, hash_to_text |-> hash_to_text,
     last_texts |-> last_texts, last_emit_ts |-> last_emit_ts,
     prev_chunk_tail |-> prev_chunk_tail]

\* add_audio_hash on the fields d; assigning to a key the dict already
\* holds leaves the key at its place in the insertion order
add_audio_hash(d, audio_hash) ==
    LET keys == IF audio_hash \in Range(d.hash_to_text)
                THEN d.hash_to_text
                ELSE Append(d.hash_to_text, audio_hash)
    IN  [d EXCEPT
           !.chunk_hashes = DequeAppend(@, audio_hash, chunk_hashes_maxlen),
           !.hash_to_text =
               IF Len(keys) > hash_map_limit
               THEN SubSeq(keys, Len(keys) - hash_map_keep + 1, Len(keys))
               ELSE keys]

\* _store_chunk_tail: the new _prev_chunk_tail
store_chunk_tail(text, confidence) ==
    LET words == split(text)
        tail_words == SubSeq(words, Len(words) - overlap_word_count + 1,
                             Len(words))
    IN  IF Len(words) >= overlap_word_count
        THEN [text |-> join(tail_words), confidence |-> confidence,
              words |-> tail_words]
        ELSE [text |-> text, confidence |-> confidence, words |-> words]

\* The loop of _apply_confidence_stitching from overlap_len down to 1
RECURSIVE StitchLoop(_, _, _, _)
StitchLoop(prev_tail, current_text, current_words, overlap_len) ==
    LET prev_words == prev_tail.words
        prev_tail_subset ==
            join(SubSeq(prev_words, Len(prev_words) - overlap_len + 1,
                        Len(prev_words)))
        current_head_subset == join(SubSeq(current_words, 1, overlap_len))
    IN  IF overlap_len = 0 THEN current_text
        ELSE IF levenshtein_similarity(lower(prev_tail_subset),
                                       lower(current_head_subset))
                  >= overlap_similarity
        THEN IF prev_tail.confidence < stitch_confidence_threshold
             THEN join(SubSeq(current_words, overlap_len + 1,
                              Len(current_words)))
             ELSE current_text
        ELSE StitchLoop(prev_tail, current_text, current_words,
                        overlap_len - 1)

\* _apply_confidence_stitching(current_text, current_confidence) with
\* _prev_chunk_tail = prev_tail; current_confidence only picks the log line
apply_confidence_stitching_last_word(prev_tail, current_text) ==
    LET current_words == split(current_text)
    IN  StitchLoop(prev_tail, current_text, current_words,
                   Min(1, Min(Len(prev_tail.words), Len(current_words))))

apply_confidence_stitching(prev_tail, current_text) ==
    LET current_words == split(current_text)
    IN  StitchLoop(prev_tail, current_text, current_words,
                   Min(Len(prev_tail.words), Len(current_words)))

\* decode_output returns None before it wrote anything; `text` is the
\* cleaned text as far as it was built
ReturnNoneForgetsTail(d, text) ==
    [state |-> [d EXCEPT !.prev_chunk_tail = <<>>], text |-> text,
     result |-> <<>>]

ReturnNone(d, text) == [state |-> d, text |-> text, result |-> <<>>]

\* decode_output(output_tensor, audio_hash) at time t on the fields d.  The
\* tensor w is given by what the decoder derives from it: the mean blank
\* probability in hundredths, whether the CTC collapse is empty, the text
\* left by parse_sensevoice_tokens and the mean confidence in tenths.
decode_output(d, w, t) ==
    LET stitched == IF enable_confidence_stitching /\ d.prev_chunk_tail # <<>>
                    THEN apply_confidence_stitching(d.prev_chunk_tail[1],
                                                    w.text_clean)
                    ELSE w.text_clean
        d1 == IF enable_confidence_stitching
              THEN [d EXCEPT !.prev_chunk_tail =
                       <<store_chunk_tail(stitched, w.avg_confidence)>>]
              ELSE d
        suppressed ==
            \E k \in 1..Len(d.last_texts) :
               /\ levenshtein_similarity(lower(stitched),
                                         lower(d.last_texts[k]))
                     >= similarity_threshold
               /\ t - d.last_emit_ts < duplicate_cooldown_s
    IN  IF /\ w.audio_hash \in Range(d.chunk_hashes)
           /\ w.audio_hash \in Range(d.hash_to_text)
        THEN ReturnNone(d, <<>>)
        ELSE IF w.avg_blank > blank_gate THEN ReturnNone(d, <<>>)
        ELSE IF w.ids_empty THEN ReturnNone(d, <<>>)
        ELSE IF AlnumCount(w.text_clean) < min_chars THEN ReturnNone(d, <<>>)
        ELSE IF suppressed
        THEN [state |-> d1, text |-> <<stitched>>, result |-> <<>>]
        ELSE [state |-> [d1 EXCEPT
                           !.last_texts = DequeAppend(@, stitched,
                                                      last_texts_maxlen),
                           !.last_emit_ts = t],
              text |-> <<stitched>>,
              result |-> <<[text |-> stitched,
                            confidence |-> w.avg_confidence]>>]

\* PostprocessingStage.process, step 1: decode_output after `elapsed` more
\* time, then add_audio_hash when there is a result
DecodeWindow(w, elapsed) ==
    /\ decode_calls' = decode_calls + 1
    /\ now' = now + elapsed
    /\ \E r \in {decode_output(DecoderState, w, now + elapsed)} :
         \E d \in {IF r.result = <<>> THEN r.state
                   ELSE add_audio_hash(r.state, w.audio_hash)} :
           /\ chunk_hashes' = d.chunk_hashes
           /\ hash_to_text' = d.hash_to_text
           /\ last_texts' = d.last_texts
           /\ last_emit_ts' = d.last_emit_ts
           /\ prev_chunk_tail' = d.prev_chunk_tail
           /\ decode_text' = r.text
           /\ decode_returned' = r.result
    /\ decode_input' = <<w>>
    /\ UNCHANGED <<mergerCfg, mergerVars, langCfg, langVars, recorded,
                   pipeVars, pipeAux, legacyVars, workerVars, vadVars,
                   ctcVars, ingressVars, backVars>>

\* The model's vocabulary: "ab", "Ab" and "a!"
Vocabulary == {<<"a", "b">>, <<"A", "b">>, <<"a", "!">>}

RECURSIVE WordSeqs(_)
WordSeqs(n) ==
    IF n = 0 THEN {<<>>}
    ELSE {Append(p, v) : p \in WordSeqs(n - 1), v \in Vocabulary}

Texts == {join(ws) : ws \in UNION {WordSeqs(n) : n \in 0..MaxTextWords}}

\* Windows of two fingerprints: blank ones, ones whose collapse is empty
\* (nothing is decoded from either) and ones that decode to a text
Windows ==
    {w \in [audio_hash : 0..1, avg_blank : {blank_gate, blank_gate + 1},
            ids_empty : BOOLEAN, text_clean : Texts, avg_confidence : {5, 9}] :
        /\ (w.avg_blank > blank_gate \/ w.ids_empty) =>
              (w.text_clean = <<>> /\ w.avg_confidence = 9)
        /\ w.avg_blank > blank_gate => ~w.ids_empty}

\* A window is decoded, at once or one cooldown after the last one
Decode ==
    /\ decode_calls < MaxDecodes
    /\ \E w \in Windows, elapsed \in {0, duplicate_cooldown_s} :
         DecodeWindow(w, elapsed)

\* Windows that differ in their fingerprint only, decoded a cooldown apart
DedupWindows ==
    {[audio_hash |-> h, avg_blank |-> blank_gate, ids_empty |-> FALSE,
      text_clean |-> join(<<<<"a", "b">>, <<"a", "b">>>>),
      avg_confidence |-> 9] : h \in 0..(MaxHashes - 1)}

DedupDecode ==
    /\ decode_calls < MaxDedupDecodes
    /\ \E w \in DedupWindows : DecodeWindow(w, duplicate_cooldown_s)

\* The texts "ab ab", "Ab ab" and "a! ab": the first two are equal but for
\* the case, the third is less than similarity_threshold like them
RingTexts ==
    {join(<<first, <<"a", "b">>>>) :
        first \in {<<"a", "b">>, <<"A", "b">>, <<"a", "!">>}}

\* Windows of fresh audio, each with a fingerprint of its own, decoded at
\* once or a cooldown after the last one
RingDecode ==
    /\ decode_calls < MaxRingDecodes
    /\ \E text \in RingTexts, elapsed \in {0, duplicate_cooldown_s} :
         DecodeWindow([audio_hash |-> decode_calls, avg_blank |-> blank_gate,
                       ids_empty |-> FALSE, text_clean |-> text,
                       avg_confidence |-> 9], elapsed)

\* =====================================================================
\* AudioProcessor.is_speech_segment.  A window is given by the features
\* the calculate_* functions find in it: RMS in thousandths, zero-crossing
\* rate and spectral entropy in hundredths.
\* =====================================================================

\* AudioProcessor.__init__
VadInit(mode) ==
    /\ vad_mode = mode
    /\ vad_calls = 0
    /\ vad_input = <<>>
    /\ vad_returned = <<>>

\* is_speech_segment(audio_data, noise_floor): the pair it returns and, as
\* `evaluated`, the features it computed on the way
is_speech_segment_at_threshold(audio_data, noise_floor) ==
    LET energy_threshold == IF noise_floor # <<>>
                            THEN noise_floor[1] + rms_margin
                            ELSE vad_energy_threshold
        energy_check == audio_data.rms >= energy_threshold
        zcr_check == vad_zcr_min < audio_data.zcr /\ audio_data.zcr < vad_zcr_max
        entropy_check == audio_data.spectral_entropy < vad_entropy_max
    IN  IF ~energy_check
        THEN [is_speech |-> FALSE, rms |-> audio_data.rms, zcr |-> 0,
              spectral_entropy |-> 100, energy_check |-> FALSE,
              zcr_check |-> FALSE, entropy_check |-> FALSE,
              evaluated |-> {"rms"}]
        ELSE IF vad_mode = "fast"
        THEN [is_speech |-> energy_check /\ zcr_check, rms |-> audio_data.rms,
              zcr |-> audio_data.zcr, spectral_entropy |-> -100,
              energy_check |-> energy_check, zcr_check |-> zcr_check,
              entropy_check |-> TRUE, evaluated |-> {"rms", "zcr"}]
        ELSE [is_speech |-> energy_check /\ (zcr_check \/ entropy_check),
              rms |-> audio_data.rms, zcr |-> audio_data.zcr,
              spectral_entropy |-> audio_data.spectral_entropy,
              energy_check |-> energy_check, zcr_check |-> zcr_check,
              entropy_check |-> entropy_check,
              evaluated |-> {"rms", "zcr", "spectral_entropy"}]

is_speech_segment(audio_data, noise_floor) ==
    LET energy_threshold == IF noise_floor # <<>>
                            THEN noise_floor[1] + rms_margin
                            ELSE vad_energy_threshold
        energy_check == audio_data.rms > energy_threshold
        zcr_check == vad_zcr_min < audio_data.zcr /\ audio_data.zcr < vad_zcr_max
        entropy_check == audio_data.spectral_entropy < vad_entropy_max
    IN  IF ~energy_check
        THEN [is_speech |-> FALSE, rms |-> audio_data.rms, zcr |-> 0,
              spectral_entropy |-> 100, energy_check |-> FALSE,
              zcr_check |-> FALSE, entropy_check |-> FALSE,
              evaluated |-> {"rms"}]
        ELSE IF vad_mode = "fast"
        THEN [is_speech |-> energy_check /\ zcr_check, rms |-> audio_data.rms,
              zcr |-> audio_data.zcr, spectral_entropy |-> -100,
              energy_check |-> energy_check, zcr_check |-> zcr_check,
              entropy_check |-> TRUE, evaluated |-> {"rms", "zcr"}]
        ELSE [is_speech |-> energy_check /\ (zcr_check \/ entropy_check),
              rms |-> audio_data.rms, zcr |-> audio_data.zcr,
              spectral_entropy |-> audio_data.spectral_entropy,
              energy_check |-> energy_check, zcr_check |-> zcr_check,
              entropy_check |-> entropy_check,
              evaluated |-> {"rms", "zcr", "spectral_entropy"}]

\* Windows around the thresholds
VadWindows ==
    [rms : {vad_energy_threshold, vad_energy_threshold + 1,
            vad_energy_threshold + 2, vad_energy_threshold + 3},
     zcr : {vad_zcr_min, vad_zcr_min + 1, vad_zcr_max},
     spectral_entropy : {vad_entropy_max - 1, vad_entropy_max}]

\* Noise floors: none yet (the static threshold applies), or one that puts
\* the threshold two thousandths above the static one
NoiseFloors == {<<>>, <<vad_energy_threshold + 2 - rms_margin>>}

\* A caller asks whether a window holds speech
IsSpeechSegment ==
    /\ vad_calls < MaxVadCalls
    /\ vad_calls' = vad_calls + 1
    /\ \E audio_data \in VadWindows, noise_floor \in NoiseFloors :
         /\ vad_input' = <<[audio_data |-> audio_data,
                            noise_floor |-> noise_floor]>>
         /\ vad_returned' = <<is_speech_segment(audio_data, noise_floor)>>
    /\ UNCHANGED vad_mode
    /\ UNCHANGED <<mergerCfg, mergerVars, langCfg, langVars, langAux, pipeVars,
                   pipeAux, legacyVars, workerVars, decoderVars, ctcVars,
                   ingressVars, backVars>>

\* =====================================================================
\* TranscriptionDecoder: CTC collapse and the words of a window, handed to
\* the timeline merger.  A frame is the argmax token of its column and
\* the probability of that token, in tenths.
\* =====================================================================

\* The piece of the language tag, one symbol of the vocabulary
MetadataPiece == "<|en|>"

\* SentencePieceProcessor.IdToPiece; "_" stands for the word-boundary mark
IdToPiece(token_id) ==
    IF token_id = 1 THEN <<"_", "a">>
    ELSE IF token_id = 2 THEN <<"b">>
    ELSE <<MetadataPiece>>

\* The j at which the inner loop of unique_consecutive_with_confidence
\* stops: the first frame from j on that does not hold current_token
RECURSIVE RunEnd(_, _, _)
RunEnd(arr, current_token, j) ==
    IF j <= Len(arr) /\ arr[j].id = current_token
    THEN RunEnd(arr, current_token, j + 1)
    ELSE j

\* max_conf over the frames i..(j - 1)
RECURSIVE RunMax(_, _, _)
RunMax(arr, i, j) ==
    IF i + 1 >= j THEN arr[i].prob ELSE Max(arr[i].prob, RunMax(arr, i + 1, j))

\* The run of frames i..(j - 1) as a token; frames count from 0 and
\* end_frame is the frame behind the run
CollapseRunToStart(arr, i, j) ==
    [token_id |-> arr[i].id, confidence |-> RunMax(arr, i, j),
     start_frame |-> i - 1, end_frame |-> i - 1]

CollapseRun(arr, i, j) ==
    [token_id |-> arr[i].id, confidence |-> RunMax(arr, i, j),
     start_frame |-> i - 1, end_frame |-> j - 1]

\* unique_consecutive_with_confidence(arr, probs): the outer loop from i
RECURSIVE Collapse(_, _, _)
Collapse(arr, i, tokens) ==
    IF i > Len(arr) THEN tokens
    ELSE IF arr[i].id = blank_id THEN Collapse(arr, i + 1, tokens)
    ELSE LET j == RunEnd(arr, arr[i].id, i + 1)
         IN  Collapse(arr, j, Append(tokens, CollapseRun(arr, i, j)))

unique_consecutive_with_confidence(arr) == Collapse(arr, 1, <<>>)

\* tokens_with_timing of decode_output
TokensWithTiming(tokens) ==
    [k \in 1..Len(tokens) |->
        [token_text |-> IdToPiece(tokens[k].token_id),
         start_ms |-> tokens[k].start_frame * frame_duration_ms,
         end_ms |-> tokens[k].end_frame * frame_duration_ms,
         confidence |-> tokens[k].confidence]]

RECURSIVE Sum(_)
Sum(s) == IF s = <<>> THEN 0 ELSE Head(s) + Sum(Tail(s))

\* float(np.mean(current_confidences)), in tenths rounded down
Mean(s) == Sum(s) \div Len(s)

\* ''.join(current_word_tokens).replace(mark, ' ').strip()
RECURSIVE WordText(_)
WordText(pieces) ==
    IF pieces = <<>> THEN <<>>
    ELSE SelectSeq(Head(pieces), LAMBDA c : c # "_") \o WordText(Tail(pieces))

\* _tokens_to_words_with_timestamps: the word in progress is closed
FinalizeWord(st) ==
    IF st.current_word_tokens # <<>> /\ WordText(st.current_word_tokens) # <<>>
       /\ st.current_start_ms # <<>> /\ st.current_end_ms # <<>>
    THEN Append(st.words_with_timing,
                [word |-> WordText(st.current_word_tokens),
                 start_ms |-> st.current_start_ms[1],
                 end_ms |-> st.current_end_ms[1],
                 confidence |-> Mean(st.current_confidences)])
    ELSE st.words_with_timing

\* _tokens_to_words_with_timestamps: the loop over the tokens from k
RECURSIVE WordsLoop(_, _, _)
WordsLoop(tokens, k, st) ==
    IF k > Len(tokens) THEN FinalizeWord(st)
    ELSE LET token_info == tokens[k]
         IN  IF Head(token_info.token_text) = "_"
             THEN WordsLoop(tokens, k + 1,
                     [words_with_timing |-> FinalizeWord(st),
                      current_word_tokens |-> <<token_info.token_text>>,
                      current_start_ms |-> <<token_info.start_ms>>,
                      current_end_ms |-> <<token_info.end_ms>>,
                      current_confidences |-> <<token_info.confidence>>])
             ELSE WordsLoop(tokens, k + 1,
                     [st EXCEPT
                        !.current_word_tokens = Append(@, token_info.token_text),
                        !.current_start_ms =
                            IF @ = <<>> THEN <<token_info.start_ms>> ELSE @,
                        !.current_end_ms = <<token_info.end_ms>>,
                        !.current_confidences =
                            Append(@, token_info.confidence)])

tokens_to_words_with_timestamps(tokens) ==
    WordsLoop(tokens, 1,
              [words_with_timing |-> <<>>, current_word_tokens |-> <<>>,
               current_start_ms |-> <<>>, current_end_ms |-> <<>>,
               current_confidences |-> <<>>])

\* The frames of a window: blank, a word-start piece, a continuation
\* piece or the language tag in each, the winning probability low or high
Frames == {[id |-> blank_id, prob |-> 9]}
          \cup [id : {1, 2, 3}, prob : {3, 9}]

RECURSIVE FrameListsOfLen(_)
FrameListsOfLen(n) ==
    IF n = 0 THEN {<<>>}
    ELSE {Append(p, f) : p \in FrameListsOfLen(n - 1), f \in Frames}

FrameLists == UNION {FrameListsOfLen(n) : n \in 1..MaxCtcFrames}

\* TranscriptionDecoder.__init__, as far as the words go
CtcInit ==
    /\ ctc_frames = 0
    /\ ctc_tokens = <<>>
    /\ ctc_words = <<>>

\* PostprocessingStage.process on the next window: decode_output collapses
\* the frames and builds the words, _process_with_timeline_merging hands
\* them to merge_chunk
DecodeAndMerge ==
    /\ merge_calls < MaxMerges
    /\ \E arr \in FrameLists :
         LET tokens == unique_consecutive_with_confidence(arr)
             words == tokens_to_words_with_timestamps(TokensWithTiming(tokens))
         IN  /\ ctc_frames' = Len(arr)
             /\ ctc_tokens' = tokens
             /\ ctc_words' = words
             /\ merge_chunk(words, merge_calls)
    /\ merge_offset' = merge_calls
    /\ merge_calls' = merge_calls + 1
    /\ UNCHANGED <<mergerCfg, langCfg, langVars, langAux, pipeVars, pipeAux,
                   legacyVars, workerVars, decoderVars, vadVars,
                   ingressVars, backVars>>

\* =====================================================================
\* AudioProcessingPipeline._process_audio_worker: the buffer of device
\* samples and the windows cut from it.  A sample is given by its number
\* in the stream of the device.
\* =====================================================================

buffer_size_dev == device_rate * chunk_duration

overlap_size_dev == device_rate * overlap_duration

\* _keep_overlap(audio_buffer, overlap_size)
keep_overlap(buffer, overlap_size) ==
    IF overlap_size > 0
    THEN SubSeq(buffer, Max(1, Len(buffer) - overlap_size + 1), Len(buffer))
    ELSE <<>>

\* The state at the head of _process_audio_worker, for a device that
\* delivers chunks of `size` samples
IngressInit(size) ==
    /\ chunk_size = size
    /\ audio_buffer = <<>>
    /\ next_sample = 0
    /\ calibrated = FALSE
    /\ ingress_log = <<>>

\* What a turn of the loop does with a full buffer:
\*   raise      resampling, the VAD or a later step raised; the handler of
\*              the loop logs the error
\*   no_speech  the VAD found no speech
\*   speech     the window went through features, inference and decoding
IngressOutcomes == {"raise", "no_speech", "speech"}

\* One turn of the loop of _process_audio_worker in which get_audio_chunk
\* delivers a chunk.  While the noise floor is not calibrated the turn ends
\* after bootstrap_calibration, which may complete the calibration.
IngressTurn ==
    /\ next_sample + chunk_size <= MaxSamples
    /\ next_sample' = next_sample + chunk_size
    /\ LET chunk == [k \in 1..chunk_size |-> next_sample + k - 1]
           buffer == audio_buffer \o chunk
       IN  IF ~calibrated
           THEN /\ audio_buffer' = buffer
                /\ calibrated' \in BOOLEAN
                /\ UNCHANGED ingress_log
           ELSE IF Len(buffer) < buffer_size_dev
           THEN /\ audio_buffer' = buffer
                /\ UNCHANGED <<calibrated, ingress_log>>
           ELSE \E outcome \in IngressOutcomes :
                  /\ ingress_log' = Append(ingress_log,
                                           [window |-> buffer,
                                            outcome |-> outcome])
                  /\ audio_buffer' = IF outcome = "raise" THEN buffer
                                     ELSE keep_overlap(buffer, overlap_size_dev)
                  /\ UNCHANGED calibrated
    /\ UNCHANGED chunk_size
    /\ UNCHANGED <<mergerCfg, mergerVars, langCfg, langVars, langAux, pipeVars,
                   pipeAux, legacyVars, workerVars, decoderVars, vadVars,
                   ctcVars, backVars>>

\* =====================================================================
\* PipelineOrchestrator.start and stop over the emitter and the stages.
\* A component is running when its start() has set is_running and begun
\* its worker thread; start() of a running component returns False.
\* =====================================================================

Components == {"AsyncEmitter"} \cup Stages

\* The order in which start() walks the components
StartOrder == <<"AsyncEmitter">> \o stages

\* PipelineOrchestrator.__init__
OrchestratorInit ==
    /\ thread_running = [c \in Components |-> FALSE]
    /\ start_calls = 0
    /\ start_returned = <<>>
    /\ started_in_call = {}

\* The position in StartOrder of the first component whose start() returns
\* False, 0 when every start() succeeds
FirstFailure(running) ==
    IF \A k \in 1..Len(StartOrder) : ~running[StartOrder[k]] THEN 0
    ELSE CHOOSE k \in 1..Len(StartOrder) :
           /\ running[StartOrder[k]]
           /\ \A j \in 1..(k - 1) : ~running[StartOrder[j]]

\* PipelineOrchestrator.stop() on the components, with the orchestrator's
\* is_running = running_flag: it returns at once unless the flag is set
stop(running, running_flag) ==
    IF ~running_flag THEN running ELSE [c \in Components |-> FALSE]

\* PipelineOrchestrator.start()
OrchestratorStart ==
    /\ start_calls < MaxStartCalls
    /\ start_calls' = start_calls + 1
    /\ LET k == FirstFailure(thread_running)
           started == IF k = 0 THEN Components
                      ELSE {StartOrder[j] : j \in 1..(k - 1)}
           running == [c \in Components |-> thread_running[c] \/ c \in started]
       IN  IF is_running
           THEN /\ start_returned' = <<FALSE>>
                /\ started_in_call' = {}
                /\ UNCHANGED <<thread_running, is_running, start_order>>
           ELSE /\ started_in_call' = started
                /\ start_order' = start_order \o
                                    SubSeq(StartOrder, 1, Cardinality(started))
                /\ start_returned' = <<k = 0>>
                /\ is_running' = (k = 0)
                /\ thread_running' = IF k > 1 THEN stop(running, is_running)
                                     ELSE running
    /\ UNCHANGED <<preprocess_queue, inference_queue, postprocess_queue,
                   stage_pc, stage_item, next_chunk, handled, merged_at, stats,
                   submit_returned, dropped_at, raised, noise_floor_updates,
                   vad_rejected>>
    /\ UNCHANGED <<mergerCfg, mergerVars, langCfg, langVars, langAux,
                   legacyVars, workerVars, decoderVars, vadVars, ctcVars,
                   ingressVars, postVars>>

\* PipelineOrchestrator.stop() of a running pipeline
OrchestratorStop ==
    /\ is_running
    /\ thread_running' = stop(thread_running, is_running)
    /\ is_running' = FALSE
    /\ UNCHANGED <<start_calls, start_returned, started_in_call>>
    /\ UNCHANGED <<preprocess_queue, inference_queue, postprocess_queue,
                   stage_pc, stage_item, next_chunk, handled, merged_at, stats,
                   submit_returned, dropped_at, raised>>
    /\ UNCHANGED <<mergerCfg, mergerVars, langCfg, langVars, langAux, pipeAux,
                   legacyVars, workerVars, decoderVars, vadVars, ctcVars,
                   ingressVars, postVars>>

\* A caller starts one component through its own start()
ComponentStart ==
    /\ \E c \in Components :
         /\ ~thread_running[c]
         /\ thread_running' = [thread_running EXCEPT ![c] = TRUE]
    /\ UNCHANGED <<start_calls, start_returned, started_in_call>>
    /\ UNCHANGED <<mergerCfg, mergerVars, langCfg, langVars, langAux, pipeVars,
                   pipeAux, legacyVars, workerVars, decoderVars, vadVars,
                   ctcVars, ingressVars, postVars>>

\* A caller stops one component through its own stop()
ComponentStop ==
    /\ \E c \in Components :
         /\ thread_running[c]
         /\ thread_running' = [thread_running EXCEPT ![c] = FALSE]
    /\ UNCHANGED <<start_calls, start_returned, started_in_call>>
    /\ UNCHANGED <<mergerCfg, mergerVars, langCfg, langVars, langAux, pipeVars,
                   pipeAux, legacyVars, workerVars, decoderVars, vadVars,
                   ctcVars, ingressVars, postVars>>

\* =====================================================================
\* PostprocessingStage
\* =====================================================================

\* No item has been processed yet
PostInit ==
    /\ post_calls = 0
    /\ post_chunk = 0
    /\ post_window = [decoded |-> FALSE, has_words |-> FALSE,
                      filtered |-> FALSE, merged |-> FALSE]
    /\ emit_windows = 0
    /\ rejected_windows = 0

\* result['audio_events'] of a decoded result
AudioEvents == {<<>>, <<"Speech">>, <<"BGM">>}

\* TranscriptionFormatter.check_metadata_filter(result): should_filter
check_metadata_filter(result) ==
    \/ filter_bgm /\ "BGM" \in Range(result.audio_events)
    \/ \E i \in 1..Len(result.audio_events) :
         result.audio_events[i] \in filter_events

\* result['words'] of a decoded result: words on the frames of a window one
\* tick longer than the step of the chunk offset
PostWordLists ==
    {ws \in WordLists : \A i \in 1..Len(ws) : ws[i].end_ms <= chunk_duration_ms + 1}

\* result.get('language') of the results fed to the stage
PostLanguages == {None, "English"}

\* What decode_output gives for an item: <<>> is None, <<result>> a result
PostDecoded ==
    {<<>>} \cup {<<[audio_events |-> ev, language |-> lang, words |-> ws]>> :
                   ev \in AudioEvents, lang \in PostLanguages,
                   ws \in PostWordLists}

\* `if new_words:` of _process_with_timeline_merging
ShouldEmitAlways(nw) == TRUE

ShouldEmit(nw) == nw # <<>>

\* async_emitter.emit(text, result, words) for the window with counter chunk;
\* words is <<>> for the default None, <<ws>> for a list
PostEmit(chunk, words) ==
    /\ emit([chunk |-> chunk, words |-> words])
    /\ next_envelope' = next_envelope + 1
    /\ emit_windows' = emit_windows + 1

\* One turn of _worker_loop of the Postprocessing stage: process(item), which
\* returns None on every path, then the statistics. post_raises: the text
\* post-processor raises when it is called.
PostprocessingProcess ==
    /\ post_calls < MaxPostCalls
    /\ post_calls' = post_calls + 1
    /\ \E decoded \in PostDecoded, gap \in 1..MaxChunkGap, post_raises \in BOOLEAN :
         LET chunk == IF post_calls = 0 THEN 0 ELSE post_chunk + gap
             returned == decoded # <<>>
             filtered == returned /\ check_metadata_filter(decoded[1])
             timeline == returned /\ ~filtered /\ decoded[1].words # <<>>
             legacy == returned /\ ~filtered /\ decoded[1].words = <<>>
         IN  /\ post_chunk' = chunk
             /\ IF returned /\ decoded[1].language # None
                THEN record_detection(decoded[1].language)
                ELSE UNCHANGED langVars
             /\ IF timeline
                THEN /\ merge_chunk(decoded[1].words, chunk)
                     /\ merge_offset' = chunk
                     /\ merge_calls' = merge_calls + 1
                ELSE UNCHANGED mergerVars
             /\ IF timeline /\ ShouldEmit(new_words') /\ ~post_raises
                THEN PostEmit(chunk, <<new_words'>>)
                ELSE IF legacy
                THEN PostEmit(chunk, <<>>)
                ELSE UNCHANGED <<emit_queue, emit_returned, emitter_stats,
                                 next_envelope, emit_windows>>
             /\ raised' = IF timeline /\ ShouldEmit(new_words') /\ post_raises
                          THEN [raised EXCEPT !["Postprocessing"] = @ + 1]
                          ELSE raised
             /\ rejected_windows' = IF ~returned \/ filtered
                                    THEN rejected_windows + 1
                                    ELSE rejected_windows
             /\ post_window' = [decoded |-> returned,
                                has_words |-> returned /\ decoded[1].words # <<>>,
                                filtered |-> filtered, merged |-> timeline]
    /\ stats' = StatsAfter("Postprocessing", TRUE)
    /\ UNCHANGED <<preprocess_queue, inference_queue, postprocess_queue,
                   stage_pc, stage_item, next_chunk, handled, merged_at,
                   is_running, submit_returned, dropped_at>>
    /\ UNCHANGED <<emitter_is_running, emit_thread, emit_item, emitter_stop,
                   emit_log>>
    /\ UNCHANGED <<mergerCfg, langCfg, langAux, pipeAux, legacyVars, stageVars,
                   decoderVars, vadVars, ctcVars, ingressVars, orchVars>>

\* =====================================================================
\* Specifications
\* =====================================================================

DefaultMerger ==
    MergerInit(timeline_overlap_confidence, timeline_min_word_confidence, TRUE)

DefaultLang ==
    LangInit(TRUE, "auto", 2, language_lock_min_samples,
             language_lock_confidence)

WorkersIdle == StageInit(FALSE) /\ EmitterInit(FALSE)

BackIdle == OrchestratorInit /\ PostInit

FrontIdle ==
    /\ DecoderInit /\ VadInit("accurate") /\ CtcInit /\ IngressInit(device_rate)
    /\ BackIdle

\* The parallel pipeline, over a stretch of time shorter than a warm-up of
\* two ticks: the lock stays open, or with no warm-up is decided at once
Init ==
    /\ \E warmup \in {0, 2} :
         LangInit(TRUE, "auto", warmup, language_lock_min_samples,
                  language_lock_confidence)
    /\ DefaultMerger /\ PipeInit /\ LegacyInit /\ FrontIdle /\ WorkersIdle

Next ==
    \/ start
    \/ submit_audio_chunk
    \/ PreprocessingGet
    \/ PreprocessingPut
    \/ InferenceGet
    \/ InferencePut
    \/ PostprocessingGet

Spec == Init /\ [][Next]_vars

\* The parallel pipeline with the language lock switched off
\* (enable_language_lock false)
InitLive ==
    /\ LangInit(FALSE, "auto", 2, language_lock_min_samples,
                language_lock_confidence)
    /\ DefaultMerger /\ PipeInit /\ LegacyInit /\ FrontIdle /\ WorkersIdle

\* That pipeline with its worker threads scheduled: the workers of
\* Preprocessing and Inference have each a thread of their own, their get and
\* put time out, and their process() returns; the Postprocessing stage may
\* stall for ever.
SpecLive ==
    /\ InitLive
    /\ [][Next]_vars
    /\ WF_vars(PreprocessingGet)
    /\ WF_vars(PreprocessingPut)
    /\ WF_vars(InferenceGet)
    /\ WF_vars(InferencePut)

\* The timeline merger under its configurations
InitMerger ==
    /\ \E thr \in {3, timeline_overlap_confidence}, repl \in BOOLEAN :
         MergerInit(thr, timeline_min_word_confidence, repl)
    /\ DefaultLang /\ PipeInit /\ LegacyInit /\ FrontIdle /\ WorkersIdle

NextMerger == MergeChunk \/ MergerReset

SpecMerger == InitMerger /\ [][NextMerger]_vars

\* The language lock under its configurations
InitLang ==
    /\ \E en \in BOOLEAN, lang \in {"auto", "en"}, warmup \in {0, 2},
          conf \in {4, language_lock_confidence} :
         LangInit(en, lang, warmup, language_lock_min_samples, conf)
    /\ DefaultMerger /\ PipeInit /\ LegacyInit /\ FrontIdle /\ WorkersIdle

NextLang == RecordDetection \/ StartWarmup \/ Tick \/ LangReset

SpecLang == InitLang /\ [][NextLang]_vars

\* The sequential pipeline
InitLegacy ==
    DefaultMerger /\ DefaultLang /\ PipeInit /\ LegacyInit /\ FrontIdle /\ WorkersIdle

NextLegacy == process_audio_worker

SpecLegacy == InitLegacy /\ [][NextLegacy]_vars

\* One PipelineStage, started
InitStage ==
    /\ StageInit(TRUE) /\ EmitterInit(FALSE)
    /\ DefaultMerger /\ DefaultLang /\ PipeInit /\ LegacyInit /\ FrontIdle

NextStage ==
    \/ StageFeed
    \/ OutputTake
    \/ WorkerCheck
    \/ WorkerGet
    \/ WorkerProcess
    \/ WorkerPut
    \/ StageStop
    \/ StageStopPut

SpecStage == InitStage /\ [][NextStage]_vars

\* The AsyncEmitter, started
InitEmitter ==
    /\ StageInit(FALSE) /\ EmitterInit(TRUE)
    /\ DefaultMerger /\ DefaultLang /\ PipeInit /\ LegacyInit /\ FrontIdle

NextEmitter ==
    \/ Emit
    \/ EmitWorkerCheck
    \/ EmitWorkerGet
    \/ EmitWorkerDoEmit
    \/ EmitterStop
    \/ EmitterStopPut

SpecEmitter == InitEmitter /\ [][NextEmitter]_vars

\* Shutdown of a started PipelineStage and of a started AsyncEmitter: each
\* worker is a thread of its own that the scheduler keeps running
InitStop == InitStage \/ InitEmitter

NextStop == NextStage \/ NextEmitter

SpecStop ==
    /\ InitStop
    /\ [][NextStop]_vars
    /\ WF_vars(StageWorker)
    /\ WF_vars(EmitWorker)

\* The decoder on windows that carry texts
InitDecoder ==
    /\ FrontIdle
    /\ DefaultMerger /\ DefaultLang /\ PipeInit /\ LegacyInit /\ WorkersIdle

NextDecoder == Decode

SpecDecoder == InitDecoder /\ [][NextDecoder]_vars

\* The voice activity detection in its two modes
InitVad ==
    /\ \E mode \in {"fast", "accurate"} : VadInit(mode)
    /\ DecoderInit /\ CtcInit /\ IngressInit(device_rate) /\ BackIdle
    /\ DefaultMerger /\ DefaultLang /\ PipeInit /\ LegacyInit /\ WorkersIdle

NextVad == IsSpeechSegment

SpecVad == InitVad /\ [][NextVad]_vars

\* The words of decoded windows on their way into the timeline
InitWords ==
    /\ \E repl \in BOOLEAN :
         MergerInit(timeline_overlap_confidence, timeline_min_word_confidence,
                    repl)
    /\ DefaultLang /\ PipeInit /\ LegacyInit /\ WorkersIdle /\ FrontIdle

NextWords == DecodeAndMerge

SpecWords == InitWords /\ [][NextWords]_vars

\* The ingress loop on devices whose chunks divide the window or not
InitIngress ==
    /\ \E size \in 1..(buffer_size_dev - 1) : IngressInit(size)
    /\ DecoderInit /\ VadInit("accurate") /\ CtcInit /\ BackIdle
    /\ DefaultMerger /\ DefaultLang /\ PipeInit /\ LegacyInit /\ WorkersIdle

NextIngress == IngressTurn

SpecIngress == InitIngress /\ [][NextIngress]_vars

\* The orchestrator and callers that start or stop single components
InitStart ==
    /\ OrchestratorInit /\ PostInit
    /\ DecoderInit /\ VadInit("accurate") /\ CtcInit /\ IngressInit(device_rate)
    /\ DefaultMerger /\ DefaultLang /\ PipeInit /\ LegacyInit /\ WorkersIdle

NextStart ==
    OrchestratorStart \/ OrchestratorStop \/ ComponentStart \/ ComponentStop

SpecStart == InitStart /\ [][NextStart]_vars

\* The Postprocessing stage of a started pipeline fed decoded windows, the
\* lock having no warm-up
InitPost ==
    /\ LangInit(TRUE, "auto", 0, language_lock_min_samples,
                language_lock_confidence)
    /\ DefaultMerger /\ PipeInit /\ LegacyInit /\ FrontIdle
    /\ StageInit(FALSE) /\ EmitterInit(TRUE)

NextPost == PostprocessingProcess

SpecPost == InitPost /\ [][NextPost]_vars

\* A PipelineStage or an AsyncEmitter that is stopped and started again
NextRestart == NextStage \/ NextEmitter \/ StageStart \/ EmitterStart

SpecRestart == InitStop /\ [][NextRestart]_vars

\* The decoder on windows of fresh audio with like and unlike texts
NextRing == RingDecode

SpecRing == InitDecoder /\ [][NextRing]_vars

\* The decoder on windows that differ in their fingerprint
InitDedup == InitDecoder

NextDedup == DedupDecode

SpecDedup == InitDedup /\ [][NextDedup]_vars

\* =====================================================================
\* Properties
\* =====================================================================

IsMergeStep == merge_calls' = merge_calls + 1

StrictlyIncreasing(q) == \A i \in 1..Len(q) : \A j \in (i + 1)..Len(q) : q[i] < q[j]

\* C1: every word a merge_chunk call returns ends strictly after the value
\* last_emit_time_ms had when the call began (no re-emission).
C1_NoReEmission ==
    [][IsMergeStep =>
         \A i \in 1..Len(new_words') :
             new_words'[i].end_ms > last_emit_time_ms]_vars

C1_Witness ==
    /\ merge_calls >= 2
    /\ new_words # <<>>
    /\ skipped_count > 0
    /\ Len(global_timeline) > Len(new_words)

\* C2: no merge_chunk call decreases last_emit_time_ms.
C2_LastEmitMonotonic ==
    [][IsMergeStep => last_emit_time_ms' >= last_emit_time_ms]_vars

C2_Witness ==
    /\ merge_calls >= 2
    /\ merge_offset >= 2
    /\ replaced_count > 0
    /\ skipped_count > 0
    /\ last_emit_time_ms > 0

\* C3: a word that replaced a timeline entry in a merge_chunk call is among
\* the new words that call returned.
C3_ReplacementReturned ==
    \A i \in 1..Len(replaced_words) : replaced_words[i] \in Range(new_words)

\* C4: while the timeline is non-empty, last_emit_time_ms is the largest
\* end_ms of its entries.
C4_LastEmitIsMaxEnd ==
    global_timeline # <<>> =>
        /\ \A i \in 1..Len(global_timeline) :
               global_timeline[i].end_ms <= last_emit_time_ms
        /\ \E i \in 1..Len(global_timeline) :
               global_timeline[i].end_ms = last_emit_time_ms

\* C5: the global timeline is sorted by start_ms.
C5_TimelineSorted ==
    \A i \in 1..(Len(global_timeline) - 1) :
        global_timeline[i].start_ms <= global_timeline[i + 1].start_ms

\* C6: the chunk counters handled by the Postprocessing stage are strictly
\* increasing.
C6_PostprocessInOrder == StrictlyIncreasing(handled)

C6_Witness ==
    /\ Len(handled) >= 2
    /\ \E i \in 1..(Len(handled) - 1) : handled[i + 1] > handled[i] + 1

\* C7: the chunk counters handed to merge_chunk are strictly increasing, in
\* the parallel and in the sequential pipeline.
C7_MergeOffsetsIncrease ==
    StrictlyIncreasing(merged_at) /\ StrictlyIncreasing(legacy_merged)

\* The configuration and the records of the worked example
ExampleConfig ==
    /\ enabled
    /\ initial_language = "auto"
    /\ warmup_duration = 0
    /\ min_samples = 3
    /\ confidence_threshold = 6

ExampleRecords ==
    <<"English", "English", "English", "Chinese", "English", "English">>

WarmupElapsed(ws) == ws # <<>> /\ now - ws[1] >= warmup_duration

TopShareReached(det) ==
    \E c \in Range(det) :
        /\ \A d \in Range(det) : Count(det, c) >= Count(det, d)
        /\ Count(det, c) * 10 >= confidence_threshold * Len(det)

C9_DecidedLockIsFrozen ==
    [][(locked /\ (RecordDetection \/ StartWarmup)) => UNCHANGED langVars]_vars

C9_Witness ==
    /\ initial_language = "auto"
    /\ locked
    /\ Cardinality({i \in 1..Len(recorded) :
                      LANGUAGE_CODE_MAP(recorded[i]) # None}) > Len(detections)

\* C10: configured with "auto", get_current_language returns another code
\* only when locked, and then the most frequent code of the detections,
\* which are at least min_samples and of which it has the share
\* confidence_threshold; while the lock is open it returns "auto".
C10_CurrentLanguage ==
    initial_language = "auto" =>
        /\ ~locked => get_current_language = "auto"
        /\ get_current_language # "auto" =>
              /\ locked
              /\ Len(detections) >= min_samples
              /\ \A d \in Range(detections) :
                    Count(detections, get_current_language)
                        >= Count(detections, d)
              /\ Count(detections, get_current_language) * 10
                    >= confidence_threshold * Len(detections)

C10_Witness ==
    /\ initial_language = "auto"
    /\ get_current_language = "en"
    /\ Cardinality(Range(detections)) = 2

\* C11: the state of the language lock (warmup_start, detections, locked,
\* current_language) is written only by steps of the Postprocessing worker.
C11_LanguageLockPostprocessOnly ==
    [][(langVars' # langVars) => PostprocessingGet]_vars

\* C13: an item whose processing raised inside a stage adds one to the
\* errors of that stage and nothing to its skipped.
C13_FailureCountedAsError ==
    [][\A s \in Stages :
          raised'[s] = raised[s] + 1 =>
              /\ stats'[s].errors = stats[s].errors + 1
              /\ stats'[s].skipped = stats[s].skipped]_vars

\* C14: every step in which an item is lost at a full queue increments a
\* counter of the program.
C14_EveryDropCounted ==
    [][(\E q \in Queues : dropped_at'[q] = dropped_at[q] + 1) =>
          stats' # stats]_vars

IsSubmitStep == next_chunk' = next_chunk + 1

\* C15: submit_audio_chunk is always ready to return; with the queue full or
\* the pipeline not running it returns False and leaves the queue as it is,
\* otherwise it appends the chunk at the tail and returns True; the queue
\* never holds more than preprocess_queue_size items.
C15_SubmitNeverBlocks ==
    /\ [](Len(preprocess_queue) <= preprocess_queue_size)
    /\ [](next_chunk < MaxChunks => ENABLED submit_audio_chunk)
    /\ [][IsSubmitStep =>
            IF ~is_running \/ Len(preprocess_queue) >= preprocess_queue_size
            THEN /\ submit_returned' = <<FALSE>>
                 /\ preprocess_queue' = preprocess_queue
            ELSE /\ submit_returned' = <<TRUE>>
                 /\ preprocess_queue' = Append(preprocess_queue, next_chunk)]_vars

C15_Witness ==
    /\ is_running
    /\ submit_returned = <<FALSE>>
    /\ Len(preprocess_queue) = preprocess_queue_size
    /\ dropped_at["preprocess"] > 0
    /\ preprocess_queue = <<0, 1, 2>>

\* process() raised in this step of the worker of the stage
IsRaiseStep ==
    /\ Len(stage_log') = Len(stage_log) + 1
    /\ stage_log'[Len(stage_log')][2] = "raise"

IsEmitStep == next_envelope' = next_envelope + 1

\* C16: emit is always ready to return; with the emit queue full it adds
\* one to dropped, returns False and leaves the queue as it is, otherwise
\* it appends the envelope at the tail, returns True and leaves dropped as
\* it is.
C16_EmitNeverBlocks ==
    /\ []((emit_thread # "none" /\ next_envelope < MaxEnvelopes) =>
             ENABLED Emit)
    /\ [][IsEmitStep =>
            IF Len(emit_queue) >= emit_queue_size
            THEN /\ emitter_stats'.dropped = emitter_stats.dropped + 1
                 /\ emit_returned' = <<FALSE>>
                 /\ emit_queue' = emit_queue
            ELSE /\ emitter_stats'.dropped = emitter_stats.dropped
                 /\ emit_returned' = <<TRUE>>
                 /\ emit_queue' = Append(emit_queue, <<next_envelope>>)]_vars

C16_Witness ==
    /\ emit_returned = <<FALSE>>
    /\ emitter_stats.dropped > 0
    /\ Len(emit_queue) = emit_queue_size
    /\ <<next_envelope - 1>> \notin Range(emit_queue)

\* A sink raised in this step of the emitter worker
IsSinkRaiseStep ==
    /\ Len(emit_log') = Len(emit_log) + 1
    /\ emit_log'[Len(emit_log')][2] \in {"console_raise", "broadcast_raise"}

\* C17: when a sink raises while the worker handles an envelope, nothing the
\* caller of emit() sees changes (its return value, the queue, is_running)
\* and the worker goes back to the head of its loop, so the envelopes
\* queued behind the failing one are the next it takes.
C17_SinkFailureContained ==
    [][IsSinkRaiseStep =>
          /\ emit_thread' = "check"
          /\ emitter_is_running' = emitter_is_running
          /\ emit_queue' = emit_queue
          /\ emit_returned' = emit_returned
          /\ next_envelope' = next_envelope]_vars

C17_Witness ==
    \E i \in 1..Len(emit_log) : \E j \in (i + 1)..Len(emit_log) :
        /\ emit_log[i][2] = "console_raise"
        /\ emit_log[j][2] = "ok"

\* C18: errors counts the envelopes for which the console or the broadcast
\* sink raised.
C18_SinkFailuresCounted ==
    emitter_stats.errors =
        Cardinality({i \in 1..Len(emit_log) :
                       emit_log[i][2] \in {"console_raise", "broadcast_raise"}})

\* The envelopes written to the console, in the order they were written
Written(log) == SelectSeq(log, LAMBDA e : e[2] # "console_raise")

Firsts(q) == [i \in 1..Len(q) |-> q[i][1]]

\* Envelopes not yet handled: the one the worker holds, then the queue
Pending ==
    (IF emit_thread = "do_emit" THEN <<emit_item>> ELSE <<>>)
        \o SelectSeq(emit_queue, LAMBDA e : e # Sentinel)

\* C19: the envelopes written to the sinks, followed by the envelopes still
\* queued, are in the order in which emit() was called on them, and all of
\* them were handed to emit(): a subsequence of the produced envelopes.
C19_DeliveredInOrder ==
    /\ StrictlyIncreasing(Firsts(emit_log) \o Firsts(Pending))
    /\ \A i \in 1..Len(emit_log) : emit_log[i][1] < next_envelope

C19_Witness ==
    /\ Len(Written(emit_log)) >= 2
    /\ emitter_stats.dropped > 0
    /\ \E i \in 1..(Len(emit_log) - 1) : emit_log[i + 1][1] > emit_log[i][1] + 1

\* C20: once stop() has been called on a running stage, its worker leaves
\* its loop, and so does the worker of the emitter, with the sentinel
\* placed or not.
C20_WorkersStop ==
    /\ (stage_stop # "none") ~> (worker_thread = "stopped")
    /\ (emitter_stop # "none") ~> (emit_thread = "stopped")

C20_Witness ==
    /\ stage_stop = "full"
    /\ worker_thread = "stopped"
    /\ Sentinel \notin Range(input_queue)

\* C21: start() starts the emitter first, then the Postprocessing worker,
\* then Inference, then Preprocessing: every consumer before its producer.
C21_ConsumersStartFirst ==
    start_order \in {<<>>, <<"AsyncEmitter", "Postprocessing", "Inference",
                            "Preprocessing">>}

\* The Preprocessing worker handles a chunk in which the VAD finds no speech
IsVadRejectStep == vad_rejected' # vad_rejected

\* Chunks that are on their way behind the Preprocessing stage
Downstream ==
    Range(inference_queue) \cup Range(postprocess_queue) \cup Range(handled)
    \cup {stage_item[s] : s \in {t \in Stages : stage_pc[t] = "put"}}

\* C27: the step that handles a chunk without speech puts nothing on the
\* inference queue and holds nothing to put, calls the noise-floor update
\* once, adds one to skipped of Preprocessing and nothing to its other
\* counters, and leaves the language lock alone; such a chunk never shows up
\* behind the Preprocessing stage.
C27_NonSpeechSkipped ==
    /\ [][IsVadRejectStep =>
            /\ inference_queue' = inference_queue
            /\ stage_pc'["Preprocessing"] = "get"
            /\ noise_floor_updates' = noise_floor_updates + 1
            /\ stats'["Preprocessing"] =
                  [stats["Preprocessing"] EXCEPT !.skipped = @ + 1]
            /\ langVars' = langVars]_vars
    /\ [](vad_rejected \cap Downstream = {})

C27_Witness ==
    /\ 0 \in vad_rejected
    /\ handled = <<1>>
    /\ stats["Preprocessing"].skipped = 1

IsDecodeStep == decode_calls' = decode_calls + 1

\* C22: a decode_output call whose fingerprint is among the stored
\* fingerprints (the last chunk_hashes_maxlen accepted ones) returns None and
\* leaves every field of the decoder as it was.
C22_StoredHashSuppressed ==
    [][(IsDecodeStep /\ decode_input'[1].audio_hash \in Range(chunk_hashes)) =>
          /\ decode_returned' = <<>>
          /\ DecoderState' = DecoderState]_vars

\* C23: the text of every result decode_output returns holds at least
\* min_chars alphanumeric characters.
C23_ResultHasMinChars ==
    decode_returned # <<>> =>
        AlnumCount(decode_returned[1].text) >= min_chars

\* The overlap lengths at which the stored tail and the head of the text
\* are similar
OverlapLengths(tail, current_words) ==
    {k \in 1..Min(Len(tail.words), Len(current_words)) :
        levenshtein_similarity(
            lower(join(SubSeq(tail.words, Len(tail.words) - k + 1,
                              Len(tail.words)))),
            lower(join(SubSeq(current_words, 1, k)))) >= overlap_similarity}

Largest(S) == CHOOSE k \in S : \A j \in S : j <= k

\* The text the stitching is to leave
StitchedText(tail, text) ==
    LET current_words == split(text)
        K == OverlapLengths(tail, current_words)
    IN  IF K # {} /\ tail.confidence < stitch_confidence_threshold
        THEN join(SubSeq(current_words, Largest(K) + 1, Len(current_words)))
        ELSE text

\* C24: with a stored tail, the text a decode goes on with is the cleaned
\* text without its first k words, k the largest overlap length at which
\* tail and head are similar, when there is such a k and the confidence of
\* the tail is below the threshold; otherwise it is the cleaned text.
C24_StitchingTrimsLargestOverlap ==
    [][(IsDecodeStep /\ prev_chunk_tail # <<>> /\ decode_text' # <<>>) =>
          decode_text'[1] =
              StitchedText(prev_chunk_tail[1], decode_input'[1].text_clean)]_vars

C24_Witness ==
    /\ decode_calls = 2
    /\ decode_text # <<>>
    /\ Len(split(decode_input[1].text_clean)) = 3
    /\ Len(split(decode_text[1])) = 1

\* A window one of the three gates rejects
Gated(w) ==
    \/ w.avg_blank > blank_gate
    \/ w.ids_empty
    \/ AlnumCount(w.text_clean) < min_chars

\* C25: a decode of a window that the blank gate, the empty collapse or the
\* content gate rejects returns None and leaves every field of the decoder
\* as it was.
C25_GatedDecodeLeavesState ==
    [][(IsDecodeStep /\ Gated(decode_input'[1])) =>
          /\ decode_returned' = <<>>
          /\ DecoderState' = DecoderState]_vars

C25_Witness ==
    /\ decode_calls = 2
    /\ prev_chunk_tail # <<>>
    /\ last_texts # <<>>
    /\ decode_input[1].audio_hash \notin Range(chunk_hashes)
    /\ decode_input[1].avg_blank <= blank_gate
    /\ ~decode_input[1].ids_empty
    /\ decode_input[1].text_clean # <<>>
    /\ AlnumCount(decode_input[1].text_clean) < min_chars
    /\ decode_returned = <<>>

\* C26: is_speech_segment computes nothing but the RMS and answers no when
\* the RMS is not above the threshold (noise floor plus rms_margin, or the
\* static threshold without a floor); above it the answer is energy and ZCR
\* in fast mode and energy and (ZCR or entropy) in accurate mode.
C26_VadDecision ==
    vad_input # <<>> =>
        LET x == vad_input[1].audio_data
            floor == vad_input[1].noise_floor
            r == vad_returned[1]
            threshold == IF floor = <<>> THEN vad_energy_threshold
                         ELSE floor[1] + rms_margin
            energy_ok == x.rms > threshold
            zcr_ok == vad_zcr_min < x.zcr /\ x.zcr < vad_zcr_max
            entropy_ok == x.spectral_entropy < vad_entropy_max
        IN  IF x.rms <= threshold
            THEN ~r.is_speech /\ r.evaluated = {"rms"}
            ELSE r.is_speech = IF vad_mode = "fast"
                               THEN energy_ok /\ zcr_ok
                               ELSE energy_ok /\ (zcr_ok \/ entropy_ok)

C26_Witness ==
    /\ vad_calls = 2
    /\ vad_mode = "accurate"
    /\ vad_input[1].noise_floor # <<>>
    /\ vad_input[1].audio_data.rms = vad_input[1].noise_floor[1] + rms_margin
    /\ vad_input[1].audio_data.spectral_entropy < vad_entropy_max
    /\ ~vad_returned[1].is_speech

InRange(w) == 0 <= w.confidence /\ w.confidence <= 10 /\ w.start_ms < w.end_ms

\* C28: every collapsed token covers a non-empty run of the T frames, and
\* every word built from the tokens and every word merge_chunk returns has
\* a confidence between 0 and 1 and starts before it ends.
C28_WordsWellFormed ==
    /\ \A k \in 1..Len(ctc_tokens) :
          /\ 0 <= ctc_tokens[k].start_frame
          /\ ctc_tokens[k].start_frame < ctc_tokens[k].end_frame
          /\ ctc_tokens[k].end_frame <= ctc_frames
          /\ 0 <= ctc_tokens[k].confidence /\ ctc_tokens[k].confidence <= 10
    /\ \A k \in 1..Len(ctc_words) : InRange(ctc_words[k])
    /\ \A k \in 1..Len(new_words) : InRange(new_words[k])

C28_Witness ==
    /\ merge_calls = 2
    /\ Len(ctc_tokens) = 3
    /\ Len(ctc_words) = 2
    /\ Len(new_words) = 1
    /\ ctc_words[1].confidence = 6

\* C29: the first overlap_size_dev samples of each window are the last
\* overlap_size_dev samples of the window before it, whatever became of
\* that window.
C29_WindowsShareOverlap ==
    \A k \in 2..Len(ingress_log) :
        SubSeq(ingress_log[k].window, 1, overlap_size_dev) =
            keep_overlap(ingress_log[k - 1].window, overlap_size_dev)

\* C30: every window handed to resampling holds exactly
\* device_rate * chunk_duration samples.
C30_WindowHasFixedLength ==
    \A k \in 1..Len(ingress_log) :
        Len(ingress_log[k].window) = buffer_size_dev

\* The fields of the merger and the locals of merge_chunk after the words
\* handled so far of the window with chunk counter merge_offset
MergeState ==
    [tl |-> global_timeline, last |-> last_emit_time_ms, nw |-> new_words,
     rc |-> replaced_count, sc |-> skipped_count, rw |-> replaced_words]

Spans(w) ==
    /\ w.start_ms < w.end_ms
    /\ merge_offset * chunk_duration_ms + w.start_ms < last_emit_time_ms
    /\ last_emit_time_ms < merge_offset * chunk_duration_ms + w.end_ms

\* A timeline entry overlaps w in time and is less confident than w by more
\* than overlap_confidence_threshold
Outbids(w) ==
    \E i \in 1..Len(global_timeline) :
        /\ global_timeline[i].start_ms < merge_offset * chunk_duration_ms + w.end_ms
        /\ global_timeline[i].end_ms > merge_offset * chunk_duration_ms + w.start_ms
        /\ w.confidence > global_timeline[i].confidence + overlap_confidence_threshold

AfterWord(w) ==
    MergeWord(MergeState, w, <<merge_offset, 0>>, merge_offset * chunk_duration_ms)

Rewritten(w) ==
    {i \in 1..Len(global_timeline) : AfterWord(w).tl[i] # global_timeline[i]}

\* C31: the loop of merge_chunk, handling a word that spans last_emit_time_ms,
\* keeps the length of the timeline and last_emit_time_ms, rewrites at most
\* one entry, and rewrites none and returns nothing new when replacement is
\* disabled or no overlapping entry is outbid by the word.
C31_BoundaryWordFrame ==
    \A w \in LocalWords :
        Spans(w) =>
            /\ Len(AfterWord(w).tl) = Len(global_timeline)
            /\ AfterWord(w).last = last_emit_time_ms
            /\ Cardinality(Rewritten(w)) <= 1
            /\ (~enable_confidence_replacement \/ ~Outbids(w)) =>
                   /\ Rewritten(w) = {}
                   /\ AfterWord(w).nw = new_words

C31_Witness ==
    /\ replaced_count > 0
    /\ Len(global_timeline) >= 2
    /\ \E w \in LocalWords : Spans(w) /\ Outbids(w) /\ Rewritten(w) # {}
    /\ \E w \in LocalWords : /\ Spans(w) /\ ~Outbids(w)
                             /\ w.confidence >= min_word_confidence

\* C38: every entry of the global timeline, appended or written by a
\* replacement, has a confidence of at least min_word_confidence.
C38_TimelineConfidenceFloor ==
    \A i \in 1..Len(global_timeline) :
        global_timeline[i].confidence >= min_word_confidence

C38_Witness ==
    /\ replaced_words # <<>>
    /\ skipped_count > 0
    /\ Len(global_timeline) >= 2
    /\ \E i \in 1..Len(global_timeline) :
           global_timeline[i].confidence = 5

\* The text is like one of the accepted texts and the last accepted text is
\* less than the cooldown old at time t
FuzzyDuplicate(text, t) ==
    /\ \E k \in 1..Len(last_texts) :
           levenshtein_similarity(lower(text), lower(last_texts[k]))
               >= similarity_threshold
    /\ t - last_emit_ts < duplicate_cooldown_s

\* C33: a decode suppressed as a fuzzy duplicate returns None and leaves
\* last_texts and _last_emit_ts as they were; an accepted decode appends its
\* text to last_texts, which drops its oldest text beyond last_texts_maxlen,
\* and sets _last_emit_ts to the current time.
C33_FuzzyDuplicateFrame ==
    [][IsDecodeStep /\ decode_text' # <<>> =>
         IF FuzzyDuplicate(decode_text'[1], now')
         THEN /\ decode_returned' = <<>>
              /\ last_texts' = last_texts
              /\ last_emit_ts' = last_emit_ts
         ELSE LET n == Len(last_texts')
              IN  /\ decode_returned' # <<>>
                  /\ n = Min(Len(last_texts) + 1, last_texts_maxlen)
                  /\ last_texts'[n] = decode_returned'[1].text
                  /\ SubSeq(last_texts', 1, n - 1) =
                        SubSeq(last_texts, Len(last_texts) - n + 2,
                               Len(last_texts))
                  /\ last_emit_ts' = now']_vars

C33_Witness ==
    /\ decode_calls = MaxRingDecodes
    /\ Len(last_texts) = last_texts_maxlen
    /\ decode_returned = <<>>
    /\ decode_text # <<>>
    /\ decode_text[1] \notin Range(last_texts)
    /\ \E k \in 1..Len(last_texts) :
           levenshtein_similarity(lower(decode_text[1]), lower(last_texts[k]))
               < similarity_threshold

C36_RestartedWorkerRuns ==
    /\ stage_is_running => worker_thread # "stopped"
    /\ emitter_is_running => emit_thread # "stopped"

IsStartStep == start_calls' = start_calls + 1

\* C34: when start() of a pipeline that is not running returns False, the
\* components that call started are stopped again and the orchestrator is
\* not marked running.
C34_FailedStartCleansUp ==
    [][IsStartStep /\ ~is_running /\ start_returned' = <<FALSE>> =>
         /\ ~is_running'
         /\ \A c \in started_in_call' : ~thread_running'[c]]_vars

\* C39: no word built from the tokens of a window holds the piece of a
\* metadata token.
C39_WordsFreeOfMetadata ==
    \A k \in 1..Len(ctc_words) :
        \A i \in 1..Len(ctc_words[k].word) :
            ctc_words[k].word[i] # MetadataPiece

\* emit calls of a step: the envelopes the queue took and the ones it refused
EmitCalls ==
    (Len(emit_queue') - Len(emit_queue))
        + (emitter_stats'.dropped - emitter_stats.dropped)

\* C32: with timeline merging enabled, process() calls emit at most once for
\* a window; for a result with words it calls emit only when the decoder
\* returned a result, the metadata filter kept it and merge_chunk returned a
\* new word, and the envelope carries the words merge_chunk returned; a
\* filtered result leaves the timeline and the emit queue as they are.
C32_EmitOnlyNewWords ==
    [][(post_calls' = post_calls + 1) =>
         /\ EmitCalls \in {0, 1}
         /\ (post_window'.has_words /\ EmitCalls = 1) =>
              /\ post_window'.decoded
              /\ ~post_window'.filtered
              /\ merge_calls' = merge_calls + 1
              /\ new_words' # <<>>
              /\ Len(emit_queue') > Len(emit_queue) =>
                   emit_queue'[Len(emit_queue')][1].words = <<new_words'>>
         /\ post_window'.filtered =>
              UNCHANGED <<global_timeline, last_emit_time_ms, emit_queue>>
      ]_vars

C32_Witness ==
    /\ post_calls = 2
    /\ post_window.filtered
    /\ global_timeline # <<>>
    /\ Len(emit_queue) = 1
    /\ emit_queue[1][1].words = <<new_words>>

\* C37: the processed counter of the Postprocessing stage is the number of
\* windows for which emit was called, and its skipped counter the number of
\* windows the decoder or the metadata filter rejected.
C37_ProcessedCountsEmits ==
    /\ stats["Postprocessing"].processed = emit_windows
    /\ stats["Postprocessing"].skipped = rejected_windows

\* C40: with the workers scheduled, every chunk accepted into Q0 or Q1 is
\* taken out by the consuming stage, and so is every chunk in Q2 when the
\* Postprocessing stage keeps returning; a worker that holds a result for a
\* full output queue is back at its input whatever the stage downstream does.
C40_NoHeadOfLineBlocking ==
    /\ \A k \in 0..(MaxChunks - 1) :
         (k \in Range(preprocess_queue)) ~> (k \notin Range(preprocess_queue))
    /\ \A k \in 0..(MaxChunks - 1) :
         (k \in Range(inference_queue)) ~> (k \notin Range(inference_queue))
    /\ WF_vars(PostprocessingGet) =>
         \A k \in 0..(MaxChunks - 1) :
           (k \in Range(postprocess_queue)) ~> (k \notin Range(postprocess_queue))
    /\ \A s \in {"Preprocessing", "Inference"} :
         (stage_pc[s] = "put") ~> (stage_pc[s] = "get")

C40_Witness ==
    /\ QueueFull(postprocess_queue, postprocess_queue_size)
    /\ dropped_at["postprocess"] > 0
    /\ stage_pc["Inference"] = "get"
    /\ handled = <<>>
    /\ submit_returned = <<TRUE>>

====
